---- MODULE Spec2Model ----
(***************************************************************************)
(* Terraship: validation orchestrator (internal/core/validator.go), the    *)
(* Terraform client it drives (internal/terraform/client.go), the rule     *)
(* engine (internal/rules/engine.go) and the provider adapters' drift      *)
(* detection (internal/cloud/{aws,azure,gcp}).                             *)
(*                                                                         *)
(* Representation.  Go strings that the code only compares or copies are   *)
(* TLA+ strings.  Strings the code looks inside (resource types, type      *)
(* patterns) are tuples of one-character strings.  A condition key is the  *)
(* tuple of its '.'-separated segments.  An attribute value (Go            *)
(* interface{}) is a record [k, s, m, l]: k the dynamic type, s the        *)
(* fmt.Sprint form of a scalar, m the entries of a mapping, l the elements *)
(* of a list.  An optional Go pointer is a sequence of length 0 or 1.  An  *)
(* error is the sequence of the messages of its %w chain, outermost first; *)
(* the empty sequence is nil.                                              *)
(***************************************************************************)
EXTENDS Integers, Sequences, FiniteSets, TLC

\* ------------------------------------------------------------------ bounds
MaxRules == 2          \* rules in a policy of the orchestrator runs
MaxPermRules == 3      \* rules in a policy of the report specification
MaxCalls == 2          \* calls of Validate with one configuration

\* ------------------------------------------------------- attribute values
NoMap == <<>>
NoList == <<>>
VBool(b) == [k |-> "bool", s |-> IF b THEN "true" ELSE "false", m |-> NoMap, l |-> NoList]
VStr(x) == [k |-> "string", s |-> x, m |-> NoMap, l |-> NoList]
VNum(x) == [k |-> "float64", s |-> x, m |-> NoMap, l |-> NoList]
VMap(f) == [k |-> "map", s |-> "", m |-> f, l |-> NoList]
VList(q) == [k |-> "list", s |-> "", m |-> NoMap, l |-> q]

\* value, exists := m[key]
Has(m, key) == key \in DOMAIN m
\* v, ok := m[key].(bool) and the like: the type assertion on a present key
IsKind(m, key, kind) == Has(m, key) /\ m[key].k = kind
\* fmt.Sprint of a scalar
Sprint(v) == v.s

\* ------------------------------------------------------ character strings
\* strings.HasPrefix(t, p)
HasPrefix(t, p) == Len(p) <= Len(t) /\ SubSeq(t, 1, Len(p)) = p

\* regexp.MatchString("^" + strings.ReplaceAll(pattern, "*", ".*") + "$", t)
\* for patterns over letters, digits, '_', '.' and '*': '*' has become '.*'
\* (any run of characters), '.' is the regular expression's any-character.
RECURSIVE RegexMatch(_, _)
RegexMatch(p, t) ==
    IF p = <<>> THEN t = <<>>
    ELSE IF Head(p) = "*"
         THEN RegexMatch(Tail(p), t) \/ (t # <<>> /\ RegexMatch(p, Tail(t)))
         ELSE /\ t # <<>>
              /\ (Head(p) = "." \/ Head(p) = Head(t))
              /\ RegexMatch(Tail(p), Tail(t))

matchResourceType(pattern, resourceType) == RegexMatch(pattern, resourceType)

\* ------------------------------------------------------------ rule engine
\* RuleApplies without the test of rule.Enabled
RuleAppliesWhenListed(rule, resourceType) ==
    \/ Len(rule.ResourceTypes) = 0
    \/ \E i \in 1..Len(rule.ResourceTypes) :
           matchResourceType(rule.ResourceTypes[i], resourceType)

RuleApplies(rule, resourceType) ==
    /\ rule.Enabled
    /\ \/ Len(rule.ResourceTypes) = 0
       \/ \E i \in 1..Len(rule.ResourceTypes) :
              matchResourceType(rule.ResourceTypes[i], resourceType)

\* the loop over e.policy.Rules: rules is what is left of the policy
RECURSIVE GetRulesForResource(_, _)
GetRulesForResource(rules, resourceType) ==
    IF rules = <<>> THEN <<>>
    ELSE (IF RuleApplies(Head(rules), resourceType) THEN <<Head(rules)>> ELSE <<>>)
             \o GetRulesForResource(Tail(rules), resourceType)

\* A checker returns [ok, details]: its boolean and what it appended to
\* result.Details.
Pass == [ok |-> TRUE, details |-> <<>>]
Fail(detail) == [ok |-> FALSE, details |-> <<detail>>]

RECURSIVE MissingTags(_, _)
MissingTags(requiredTags, tags) ==
    IF requiredTags = <<>> THEN <<>>
    ELSE LET tagName == Sprint(Head(requiredTags))
         IN  (IF Has(tags, tagName) THEN <<>> ELSE <<tagName>>)
                 \o MissingTags(Tail(requiredTags), tags)

\* checkRequiredTags taking a resource without tags as having nothing to
\* check
checkRequiredTagsSkipUntagged(expected, resource) ==
    IF expected.k # "list" THEN Fail(<<"Invalid tags.required configuration">>)
    ELSE IF ~IsKind(resource, "tags", "map") THEN Pass
    ELSE LET missingTags == MissingTags(expected.l, resource["tags"].m)
         IN  IF Len(missingTags) > 0
             THEN Fail(<<"Missing required tags: ">> \o missingTags)
             ELSE Pass

checkRequiredTags(expected, resource) ==
    IF expected.k # "list" THEN Fail(<<"Invalid tags.required configuration">>)
    ELSE IF ~IsKind(resource, "tags", "map") THEN Fail(<<"No tags found on resource">>)
    ELSE LET missingTags == MissingTags(expected.l, resource["tags"].m)
         IN  IF Len(missingTags) > 0
             THEN Fail(<<"Missing required tags: ">> \o missingTags)
             ELSE Pass

encryptionFields ==
    <<"encryption", "encrypted", "encryption_configuration",
      "server_side_encryption_configuration", "encryption_at_rest">>

\* TrueOrNonEmptyMap without the test of len(mapVal)
TrueOrAnyMap(resource, field) ==
    /\ Has(resource, field)
    /\ \/ (resource[field].k = "bool" /\ resource[field].s = "true")
       \/ resource[field].k = "map"

\* the loop body shared by the *Enabled checkers: boolean true, or a
\* non-empty mapping
TrueOrNonEmptyMap(resource, field) ==
    /\ Has(resource, field)
    /\ \/ (resource[field].k = "bool" /\ resource[field].s = "true")
       \/ (resource[field].k = "map" /\ Cardinality(DOMAIN resource[field].m) > 0)

checkEncryptionEnabled(expected, resource) ==
    IF ~(expected.k = "bool" /\ expected.s = "true") THEN Pass
    ELSE IF \E i \in 1..Len(encryptionFields) : TrueOrNonEmptyMap(resource, encryptionFields[i])
         THEN Pass
         ELSE Fail(<<"Encryption is not enabled">>)

\* strings.Contains(s, "public"), strings.Contains(strings.ToLower(s),
\* "public") and the wildcard test of checkLeastPrivilege (s contains *:* or
\* a quoted *), for the string values that occur in the model
ContainsPublic(s) == s \in {"public-read", "subnet-public-a"}
ContainsPublicFold(s) == ContainsPublic(s) \/ s \in {"PUBLIC"}
ContainsWildcard(s) == s \in {"iam:*:*"}

\* regexp.MatchString(pattern, name) for the patterns and names that occur
\* in the model: "error" when the pattern does not compile
MatchString(pattern, name) ==
    IF pattern = "(" THEN "error"
    ELSE IF pattern = "^prod-" /\ name \in {"prod-db"} THEN "match"
    ELSE "nomatch"

publicFields == {"public", "publicly_accessible", "public_access_enabled", "acl"}

\* the loop of checkPublicAccessBlocked over publicFields, a Go map, in the
\* order fields
RECURSIVE PublicAccessFrom(_, _)
PublicAccessFrom(fields, resource) ==
    IF fields = <<>> THEN Pass
    ELSE LET field == Head(fields)
         IN  IF Has(resource, field) /\ resource[field].k = "bool" /\ resource[field].s = "true"
             THEN Fail(<<"Resource has public access via ", field>>)
             ELSE IF Has(resource, field) /\ resource[field].k = "string"
                     /\ ContainsPublicFold(resource[field].s)
             THEN Fail(<<"Resource has public access via ", field, resource[field].s>>)
             ELSE PublicAccessFrom(Tail(fields), resource)

\* the fields of an order over publicFields that the resource has, in that
\* order: the others leave the loop's result as it is
RECURSIVE Present(_, _)
Present(ord, resource) ==
    IF ord = <<>> THEN <<>>
    ELSE (IF Has(resource, Head(ord)) THEN <<Head(ord)>> ELSE <<>>) \o Present(Tail(ord), resource)

\* fieldOrd is the order in which the range over publicFields yields the
\* fields the resource has
checkPublicAccessBlocked(expected, resource, fieldOrd) ==
    IF ~(expected.k = "bool" /\ expected.s = "true") THEN Pass
    ELSE PublicAccessFrom(Present(fieldOrd, resource), resource)

versioningFields == <<"versioning", "versioning_configuration", "version_enabled">>

checkVersioningEnabled(expected, resource) ==
    IF ~(expected.k = "bool" /\ expected.s = "true") THEN Pass
    ELSE IF \E i \in 1..Len(versioningFields) :
                LET field == versioningFields[i]
                IN  /\ Has(resource, field)
                    /\ \/ (resource[field].k = "bool" /\ resource[field].s = "true")
                       \/ /\ resource[field].k = "map"
                          /\ IsKind(resource[field].m, "enabled", "bool")
                          /\ resource[field].m["enabled"].s = "true"
         THEN Pass
         ELSE Fail(<<"Versioning is not enabled">>)

loggingFields == <<"logging", "logging_configuration", "log_configuration", "enable_logging">>

checkLoggingEnabled(expected, resource) ==
    IF ~(expected.k = "bool" /\ expected.s = "true") THEN Pass
    ELSE IF \E i \in 1..Len(loggingFields) : TrueOrNonEmptyMap(resource, loggingFields[i])
         THEN Pass
         ELSE Fail(<<"Logging is not enabled">>)

backupFields == <<"backup", "backup_configuration", "backup_enabled", "backup_retention_period">>

\* value.(int) holds for no attribute value: encoding/json decodes every
\* number of the plan as float64
checkBackupEnabled(expected, resource) ==
    IF ~(expected.k = "bool" /\ expected.s = "true") THEN Pass
    ELSE IF \E i \in 1..Len(backupFields) :
                \/ TrueOrNonEmptyMap(resource, backupFields[i])
                \/ /\ IsKind(resource, backupFields[i], "int")
                   /\ resource[backupFields[i]].s \notin {"0"}
         THEN Pass
         ELSE Fail(<<"Backup is not configured">>)

nameFields == <<"name", "id", "resource_name">>

\* the loop of checkNamingPattern from the i-th name field on: the first
\* field that holds a string decides
RECURSIVE NamingFrom(_, _, _)
NamingFrom(i, pattern, resource) ==
    IF i > Len(nameFields) THEN Pass
    ELSE IF IsKind(resource, nameFields[i], "string")
    THEN LET name == resource[nameFields[i]].s
             matched == MatchString(pattern, name)
         IN  IF matched = "error" THEN Fail(<<"Invalid regex pattern: ", pattern>>)
             ELSE IF matched = "nomatch"
             THEN Fail(<<"Name does not match pattern: ", name, pattern>>)
             ELSE Pass
    ELSE NamingFrom(i + 1, pattern, resource)

checkNamingPattern(expected, resource) ==
    IF expected.k # "string" THEN Pass
    ELSE NamingFrom(1, expected.s, resource)

policyFields == <<"policy", "policy_document", "policy_arn">>

checkLeastPrivilege(expected, resource) ==
    IF \E i \in 1..Len(policyFields) :
           /\ IsKind(resource, policyFields[i], "string")
           /\ ContainsWildcard(resource[policyFields[i]].s)
    THEN Fail(<<"Policy contains wildcard permissions">>)
    ELSE Pass

checkPrivateSubnet(expected, resource) ==
    IF ~(expected.k = "bool" /\ expected.s = "true") THEN Pass
    ELSE IF IsKind(resource, "subnet_id", "string") /\ ContainsPublic(resource["subnet_id"].s)
         THEN Fail(<<"Resource is in a public subnet">>)
         ELSE Pass

\* checkProperty: parts is the key split on '.', i the index of the part
\* the loop is at, current the mapping it looks in
\* checkPropertyFrom with the leaf compared as a typed value (value !=
\* expected) instead of by its string form
RECURSIVE checkPropertyTyped(_, _, _, _)
checkPropertyTyped(parts, i, expected, current) ==
    IF i > Len(parts) THEN Pass
    ELSE IF ~Has(current, parts[i]) THEN Fail(<<"Property not found: ">> \o parts)
    ELSE IF i = Len(parts)
         THEN IF current[parts[i]] # expected
              THEN Fail(<<"Property has unexpected value: ">> \o parts)
              ELSE Pass
         ELSE IF current[parts[i]].k = "map"
              THEN checkPropertyTyped(parts, i + 1, expected, current[parts[i]].m)
              ELSE Fail(<<"Cannot navigate property path: ">> \o parts)

RECURSIVE checkPropertyFrom(_, _, _, _)
checkPropertyFrom(parts, i, expected, current) ==
    IF i > Len(parts) THEN Pass
    ELSE IF ~Has(current, parts[i]) THEN Fail(<<"Property not found: ">> \o parts)
    ELSE IF i = Len(parts)
         THEN IF current[parts[i]].k \in {"bool", "string", "float64"}
                 /\ expected.k \in {"bool", "string", "float64"}
              THEN IF Sprint(current[parts[i]]) # Sprint(expected)
                   THEN Fail(<<"Property has unexpected value: ">> \o parts)
                   ELSE Pass
              ELSE IF [k |-> current[parts[i]].k, m |-> current[parts[i]].m, l |-> current[parts[i]].l]
                        # [k |-> expected.k, m |-> expected.m, l |-> expected.l]
                   THEN Fail(<<"Property has unexpected value: ">> \o parts)
                   ELSE Pass
         ELSE IF current[parts[i]].k = "map"
              THEN checkPropertyFrom(parts, i + 1, expected, current[parts[i]].m)
              ELSE Fail(<<"Cannot navigate property path: ">> \o parts)

checkProperty(propertyPath, expected, resource) ==
    checkPropertyFrom(propertyPath, 1, expected, resource)

evaluateCondition(condition, expected, resource, fieldOrd) ==
    CASE condition = <<"tags", "required">> -> checkRequiredTags(expected, resource)
      [] condition = <<"encryption", "enabled">> -> checkEncryptionEnabled(expected, resource)
      [] condition = <<"public_access", "blocked">> ->
             checkPublicAccessBlocked(expected, resource, fieldOrd)
      [] condition = <<"versioning", "enabled">> -> checkVersioningEnabled(expected, resource)
      [] condition = <<"logging", "enabled">> -> checkLoggingEnabled(expected, resource)
      [] condition = <<"backup", "enabled">> -> checkBackupEnabled(expected, resource)
      [] condition = <<"naming", "pattern">> -> checkNamingPattern(expected, resource)
      [] condition = <<"iam", "least_privilege">> -> checkLeastPrivilege(expected, resource)
      [] condition = <<"network", "private_subnet">> -> checkPrivateSubnet(expected, resource)
      [] OTHER -> checkProperty(condition, expected, resource)

\* The loop of EvaluateRule over rule.Conditions, a Go map: order is the
\* order in which this execution of the range statement yields the keys.
\* EvalConditions without the break: every condition is evaluated
RECURSIVE EvalConditionsNoBreak(_, _, _, _)
EvalConditionsNoBreak(order, conditions, resource, fieldOrd) ==
    IF order = <<>> THEN Pass
    ELSE LET c == evaluateCondition(Head(order), conditions[Head(order)], resource, fieldOrd)
             rest == EvalConditionsNoBreak(Tail(order), conditions, resource, fieldOrd)
         IN  [ok |-> c.ok /\ rest.ok, details |-> c.details \o rest.details]

RECURSIVE EvalConditions(_, _, _, _)
EvalConditions(order, conditions, resource, fieldOrd) ==
    IF order = <<>> THEN Pass
    ELSE LET c == evaluateCondition(Head(order), conditions[Head(order)], resource, fieldOrd)
         IN  IF ~c.ok THEN c
             ELSE EvalConditions(Tail(order), conditions, resource, fieldOrd)

\* the keys of conditions in the relative order they have in ord
RECURSIVE Restrict(_, _)
Restrict(ord, keys) ==
    IF ord = <<>> THEN <<>>
    ELSE (IF Head(ord) \in keys THEN <<Head(ord)>> ELSE <<>>) \o Restrict(Tail(ord), keys)

\* ord is the order in which the range over rule.Conditions yields the
\* keys, fieldOrd the order of the range over publicFields
EvaluateRule(rule, resource, ord, fieldOrd) ==
    LET c == EvalConditions(Restrict(ord, DOMAIN rule.Conditions), rule.Conditions, resource,
                            fieldOrd)
    IN  [ResourceID |-> "",
         RuleName |-> rule.Name,
         Severity |-> rule.Severity,
         Passed |-> c.ok,
         Message |-> rule.Message,
         Remediation |-> rule.Remediation,
         Details |-> c.details]

\* -------------------------------------------------------- provider adapters
\* The live cloud is a function from resource ID to what the provider's API
\* answers for it: [st, tags] with st "apierr" (the call fails), "absent"
\* (the call succeeds and finds nothing) or "exists" (tags are its live
\* tags or labels).
Status(exists, tags) ==
    [Exists |-> exists, Tags |-> tags, DriftDetected |-> FALSE, DriftDetails |-> <<>>]
StatusOk(exists, tags) == [err |-> <<>>, status |-> Status(exists, tags)]
StatusErr(msg) == [err |-> <<msg>>, status |-> Status(FALSE, <<>>)]

\* the describe/get/head call of one status getter: errIsAbsent tells
\* whether the getter turns a failed call into Exists = false
GetLive(answer, errIsAbsent, errMsg) ==
    IF answer.st = "exists" THEN StatusOk(TRUE, answer.tags)
    ELSE IF answer.st = "absent" \/ errIsAbsent THEN StatusOk(FALSE, <<>>)
    ELSE StatusErr(errMsg)

T_aws_instance == <<"a","w","s","_","i","n","s","t","a","n","c","e">>
T_aws_s3_bucket == <<"a","w","s","_","s","3","_","b","u","c","k","e","t">>
T_aws_iam_role == <<"a","w","s","_","i","a","m","_","r","o","l","e">>
T_aws_vpc == <<"a","w","s","_","v","p","c">>
T_azurerm_virtual_machine ==
    <<"a","z","u","r","e","r","m","_","v","i","r","t","u","a","l","_","m","a","c","h","i","n","e">>
T_azurerm_storage_account ==
    <<"a","z","u","r","e","r","m","_","s","t","o","r","a","g","e","_","a","c","c","o","u","n","t">>
T_azurerm_resource_group ==
    <<"a","z","u","r","e","r","m","_","r","e","s","o","u","r","c","e","_","g","r","o","u","p">>
T_google_compute_instance ==
    <<"g","o","o","g","l","e","_","c","o","m","p","u","t","e","_","i","n","s","t","a","n","c","e">>
T_google_storage_bucket ==
    <<"g","o","o","g","l","e","_","s","t","o","r","a","g","e","_","b","u","c","k","e","t">>

awsGetResourceStatus(resourceType, answer) ==
    IF HasPrefix(resourceType, T_aws_instance)
    THEN GetLive(answer, FALSE, "failed to describe EC2 instance")
    ELSE IF HasPrefix(resourceType, T_aws_s3_bucket) THEN GetLive(answer, TRUE, "")
    ELSE IF HasPrefix(resourceType, T_aws_iam_role) THEN GetLive(answer, TRUE, "")
    ELSE StatusErr("unsupported resource type")

\* parts is len(strings.Split(resourceID, "/"))
azureGetResourceStatus(resourceType, parts, answer) ==
    IF HasPrefix(resourceType, T_azurerm_virtual_machine)
       \/ HasPrefix(resourceType, T_azurerm_storage_account)
    THEN IF parts < 9 THEN StatusErr("invalid Azure resource ID format")
         ELSE GetLive(answer, TRUE, "")
    ELSE IF HasPrefix(resourceType, T_azurerm_resource_group)
    THEN IF parts < 9
         THEN IF parts >= 5 THEN StatusOk(TRUE, <<>>)
              ELSE StatusErr("invalid Azure resource ID format")
         ELSE GetLive(answer, TRUE, "")
    ELSE StatusErr("unsupported resource type")

gcpGetResourceStatus(resourceType, parts, answer) ==
    IF HasPrefix(resourceType, T_google_compute_instance)
    THEN IF parts < 6 THEN StatusErr("invalid GCP resource ID format")
         ELSE GetLive(answer, TRUE, "")
    ELSE IF HasPrefix(resourceType, T_google_storage_bucket) THEN GetLive(answer, TRUE, "")
    ELSE StatusErr("unsupported resource type")

GetResourceStatus(provider, resourceType, parts, answer) ==
    CASE provider = "aws" -> awsGetResourceStatus(resourceType, answer)
      [] provider = "azure" -> azureGetResourceStatus(resourceType, parts, answer)
      [] OTHER -> gcpGetResourceStatus(resourceType, parts, answer)

\* the attribute the adapter compares: tags, or labels for GCP
TagField(provider) == IF provider = "gcp" THEN "labels" ELSE "tags"
AbsentDetail(provider) ==
    CASE provider = "aws" -> "Resource does not exist in AWS"
      [] provider = "azure" -> "Resource does not exist in Azure"
      [] OTHER -> "Resource does not exist in GCP"

\* TagDrift without the comparison of the values: only missing keys count
RECURSIVE TagDriftMissingOnly(_, _, _)
TagDriftMissingOnly(keys, plannedTags, actualTags) ==
    IF keys = <<>> THEN <<>>
    ELSE (IF ~Has(actualTags, Head(keys)) THEN << <<"Tag missing: ", Head(keys)>> >> ELSE <<>>)
             \o TagDriftMissingOnly(Tail(keys), plannedTags, actualTags)

\* the loop over plannedTags, a Go map, in the order keys
RECURSIVE TagDrift(_, _, _)
TagDrift(keys, plannedTags, actualTags) ==
    IF keys = <<>> THEN <<>>
    ELSE LET key == Head(keys)
         IN  (IF ~Has(actualTags, key) THEN << <<"Tag missing: ", key>> >>
              ELSE IF Sprint(plannedTags[key]) # actualTags[key]
                   THEN << <<"Tag differs: ", key>> >>
                   ELSE <<>>) \o TagDrift(Tail(keys), plannedTags, actualTags)

\* DetectDrift returns [err, status]; status is meaningful when err is nil
\* tagOrd is the order in which the range over plannedTags yields its keys
DetectDrift(provider, plannedState, resourceType, parts, answer, tagOrd) ==
    LET got == GetResourceStatus(provider, resourceType, parts, answer)
    IN  IF got.err # <<>> THEN StatusErr(got.err[1])
        ELSE IF ~got.status.Exists
        THEN [err |-> <<>>,
              status |-> [got.status EXCEPT !.DriftDetected = TRUE,
                                            !.DriftDetails = << <<AbsentDetail(provider)>> >>]]
        ELSE LET driftDetails ==
                    IF IsKind(plannedState, TagField(provider), "map")
                    THEN LET plannedTags == plannedState[TagField(provider)].m
                         IN  TagDrift(Restrict(tagOrd, DOMAIN plannedTags), plannedTags, got.status.Tags)
                    ELSE <<>>
             IN  IF Len(driftDetails) > 0
                 THEN [err |-> <<>>,
                       status |-> [got.status EXCEPT !.DriftDetected = TRUE,
                                                     !.DriftDetails = driftDetails]]
                 ELSE got

\* ------------------------------------------------------------ orchestrator
ModeValidateExisting == "validate-existing"
ModeEphemeralSandbox == "ephemeral-sandbox"

ID_azure_vm == "/subscriptions/s/resourceGroups/rg/providers/Microsoft.Compute/virtualMachines/vm"

\* len(strings.Split(resourceID, "/")) for the resource IDs of the model
SplitLen(resourceID) ==
    CASE resourceID = "/subscriptions/s/resourceGroups/rg" -> 5
      [] resourceID = "projects/p/zones/z/instances/n" -> 6
      [] resourceID = ID_azure_vm -> 9
      [] OTHER -> 1

\* extractResourceID with name tried before id
extractResourceIDNameFirst(resource) ==
    IF IsKind(resource.Values, "name", "string") /\ resource.Values["name"].s # ""
    THEN resource.Values["name"].s
    ELSE IF IsKind(resource.Values, "id", "string") /\ resource.Values["id"].s # ""
    THEN resource.Values["id"].s
    ELSE IF IsKind(resource.Values, "arn", "string") /\ resource.Values["arn"].s # ""
    THEN resource.Values["arn"].s
    ELSE ""

extractResourceID(resource) ==
    IF IsKind(resource.Values, "id", "string") /\ resource.Values["id"].s # ""
    THEN resource.Values["id"].s
    ELSE IF IsKind(resource.Values, "name", "string") /\ resource.Values["name"].s # ""
    THEN resource.Values["name"].s
    ELSE IF IsKind(resource.Values, "arn", "string") /\ resource.Values["arn"].s # ""
    THEN resource.Values["arn"].s
    ELSE ""

\* StatusAfterResult with the severity test lost: any failed rule fails
\* the resource
StatusAfterResultAnyFailure(status, result) ==
    IF ~result.Passed THEN "fail" ELSE status

\* StatusAfterResult with the test for an existing fail lost: the last
\* failed rule decides
StatusAfterResultLastWins(status, result) ==
    IF ~result.Passed
    THEN IF result.Severity = "error" THEN "fail"
         ELSE IF result.Severity = "warning" THEN "warning"
         ELSE status
    ELSE status

\* the body of the loop over applicableRules
StatusAfterResult(status, result) ==
    IF ~result.Passed
    THEN IF result.Severity = "error" THEN "fail"
         ELSE IF result.Severity = "warning" /\ status # "fail" THEN "warning"
         ELSE status
    ELSE status

\* the loop over applicableRules: acc is [Status, RuleResults] so far
RECURSIVE EvaluateRules(_, _, _, _, _)
EvaluateRules(rules, resource, ord, fieldOrd, acc) ==
    IF rules = <<>> THEN acc
    ELSE LET result == [EvaluateRule(Head(rules), resource.Values, ord, fieldOrd)
                            EXCEPT !.ResourceID = resource.Address]
         IN  EvaluateRules(Tail(rules), resource, ord, fieldOrd,
                 [Status |-> StatusAfterResult(acc.Status, result),
                  RuleResults |-> Append(acc.RuleResults, result)])

\* the drift block of validateResource, applied to the report so far
StatusAfterDrift(status, driftStatus) ==
    IF driftStatus.DriftDetected /\ status = "pass" THEN "warning" ELSE status

\* ApplyDrift with a failed drift check counted against the resource
ApplyDriftEscalating(report, drift) ==
    IF drift.err # <<>>
    THEN [report EXCEPT !.Errors = Append(@, <<"Drift detection failed: ", drift.err[1]>>),
                        !.Status = "error"]
    ELSE [report EXCEPT !.DriftStatus = <<drift.status>>,
                        !.Status = StatusAfterDrift(@, drift.status)]

\* the branches on DetectDrift's result: an error is appended to Errors,
\* a status is attached and may raise pass to warning
ApplyDrift(report, drift) ==
    IF drift.err # <<>>
    THEN [report EXCEPT !.Errors = Append(@, <<"Drift detection failed: ", drift.err[1]>>)]
    ELSE [report EXCEPT !.DriftStatus = <<drift.status>>,
                        !.Status = StatusAfterDrift(@, drift.status)]

\* adapter is the provider of v.cloudAdapter, "" when it is nil; answer is
\* the cloud's answer about the resource's ID
validateResource(mode, adapter, policy, resource, answer, ord, fieldOrd, tagOrd) ==
    LET evaluated == EvaluateRules(GetRulesForResource(policy, resource.Type), resource, ord,
                                   fieldOrd, [Status |-> "pass", RuleResults |-> <<>>])
        report == [ResourceAddress |-> resource.Address,
                   ResourceType |-> resource.Type,
                   Provider |-> resource.ProviderName,
                   Status |-> evaluated.Status,
                   RuleResults |-> evaluated.RuleResults,
                   DriftStatus |-> <<>>,
                   Errors |-> <<>>]
        resourceID == extractResourceID(resource)
    IN  IF mode = ModeValidateExisting /\ adapter # "" /\ resourceID # ""
        THEN ApplyDrift(report, DetectDrift(adapter, resource.Values, resource.Type,
                                            SplitLen(resourceID), answer, tagOrd))
        ELSE report

\* collectResources: a module's own resources, then each child's, in order
RECURSIVE collectResources(_), collectChildren(_)
\* the loop over module.ChildModules
collectChildren(children) ==
    IF children = <<>> THEN <<>>
    ELSE collectResources(Head(children)) \o collectChildren(Tail(children))

\* collectResources appending the module's own resources after those of
\* its children
collectResourcesChildrenFirst(module) ==
    collectChildren(module.ChildModules) \o module.Resources

collectResources(module) == module.Resources \o collectChildren(module.ChildModules)

CountStatus(results, status) ==
    Cardinality({i \in 1..Len(results) : results[i].Status = status})

\* generateSummary with the drift test inside the warning case of the
\* switch on the report's Status
generateSummaryDriftOfWarnings(results) ==
    [TotalResources |-> Len(results),
     PassedResources |-> CountStatus(results, "pass"),
     FailedResources |-> CountStatus(results, "fail"),
     WarningResources |-> CountStatus(results, "warning"),
     ErrorResources |-> CountStatus(results, "error"),
     DriftDetected |-> Cardinality({i \in 1..Len(results) :
                           /\ results[i].Status = "warning"
                           /\ results[i].DriftStatus # <<>>
                           /\ results[i].DriftStatus[1].DriftDetected}),
     Reports |-> results]

generateSummary(results) ==
    [TotalResources |-> Len(results),
     PassedResources |-> CountStatus(results, "pass"),
     FailedResources |-> CountStatus(results, "fail"),
     WarningResources |-> CountStatus(results, "warning"),
     ErrorResources |-> CountStatus(results, "error"),
     DriftDetected |-> Cardinality({i \in 1..Len(results) :
                           /\ results[i].DriftStatus # <<>>
                           /\ results[i].DriftStatus[1].DriftDetected}),
     Reports |-> results]

\* GetProvider: files are the *.tf files of the working directory, each
\* [readable, mentions]; the result is the set of values the function can
\* return (the maximum is taken over a Go map, so a tie goes either way),
\* "" standing for the no-provider error.
ProviderCount(files, mention) ==
    Cardinality({i \in 1..Len(files) : files[i].readable /\ mention \in files[i].mentions})

\* GetProvider with the first provider found in place of the most common
GetProviderAnyMentioned(files) ==
    LET found == {p \in {"aws", "azure", "gcp"} :
                     ProviderCount(files, CASE p = "aws" -> "aws"
                                            [] p = "azure" -> "azurerm"
                                            [] OTHER -> "google") > 0}
    IN  IF found = {} THEN {""} ELSE found

GetProvider(files) ==
    LET count == [p \in {"aws", "azure", "gcp"} |->
                     ProviderCount(files, CASE p = "aws" -> "aws"
                                            [] p = "azure" -> "azurerm"
                                            [] OTHER -> "google")]
        best == {p \in DOMAIN count : count[p] > 0 /\ \A q \in DOMAIN count : count[q] <= count[p]}
    IN  IF best = {} THEN {""} ELSE best

\* ------------------------------------------------------------------ inputs
Tags(keys) == VMap([key \in keys |-> VStr("v")])

ResBucket ==
    [Address |-> "aws_s3_bucket.b", Type |-> T_aws_s3_bucket, ProviderName |-> "aws",
     Values |-> [id |-> VStr("bkt"), tags |-> Tags({"Environment"}), encrypted |-> VBool(FALSE)]]
ResInstance ==
    [Address |-> "aws_instance.i", Type |-> T_aws_instance, ProviderName |-> "aws",
     Values |-> [name |-> VStr("i-1"), tags |-> Tags({"Environment", "Owner"}),
                 encrypted |-> VBool(TRUE)]]
ResVpc ==
    [Address |-> "aws_vpc.v", Type |-> T_aws_vpc, ProviderName |-> "aws",
     Values |-> [arn |-> VStr("vpc"), id |-> VStr(""), encryption |-> Tags({"kms"})]]
ResAnon ==
    [Address |-> "aws_instance.anon", Type |-> T_aws_instance, ProviderName |-> "aws",
     Values |-> [tags |-> Tags({"Environment", "Owner"}), encrypted |-> VBool(TRUE)]]

T_aws_db_instance == <<"a","w","s","_","d","b","_","i","n","s","t","a","n","c","e">>
\* a resource with a candidate field of every named checker
ResDb ==
    [Address |-> "aws_db_instance.db", Type |-> T_aws_db_instance, ProviderName |-> "aws",
     Values |-> [name |-> VStr("prod-db"),
                 tags |-> Tags({"Owner"}),
                 encryption |-> VMap(<<>>),
                 encrypted |-> VStr("true"),
                 publicly_accessible |-> VBool(TRUE),
                 acl |-> VStr("public-read"),
                 versioning |-> VMap([status |-> VStr("Enabled")]),
                 logging |-> VMap([bucket |-> VStr("logs")]),
                 backup_retention_period |-> VNum("7"),
                 policy |-> VStr("iam:*:*"),
                 subnet_id |-> VStr("subnet-public-a"),
                 storage |-> VMap([size |-> VNum("7"), type |-> VStr("gp3")])]]
\* a resource with none of the fields the checkers look at
ResBare ==
    [Address |-> "aws_db_instance.bare", Type |-> T_aws_db_instance, ProviderName |-> "aws",
     Values |-> [engine |-> VStr("postgres")]]

\* resources of the other providers; the resource group's ID is the short
\* form /subscriptions/{subscription}/resourceGroups/{rg}
\* a resource whose id is not a string and whose name is empty
ResRole ==
    [Address |-> "aws_iam_role.role", Type |-> T_aws_iam_role, ProviderName |-> "aws",
     Values |-> [id |-> VNum("7"), name |-> VStr(""), arn |-> VStr("role"),
                 tags |-> Tags({"Owner"})]]
ResGroup ==
    [Address |-> "azurerm_resource_group.rg", Type |-> T_azurerm_resource_group,
     ProviderName |-> "azurerm",
     Values |-> [id |-> VStr("/subscriptions/s/resourceGroups/rg"), tags |-> Tags({"Environment"})]]
ResVm ==
    [Address |-> "azurerm_virtual_machine.vm", Type |-> T_azurerm_virtual_machine,
     ProviderName |-> "azurerm",
     Values |-> [id |-> VStr(ID_azure_vm), name |-> VStr("vm"),
                 tags |-> Tags({"Environment", "Owner"})]]
ResStorageAccount ==
    [Address |-> "azurerm_storage_account.sa", Type |-> T_azurerm_storage_account,
     ProviderName |-> "azurerm",
     Values |-> [name |-> VStr("sa"), tags |-> VMap(<<>>)]]
ResGce ==
    [Address |-> "google_compute_instance.n", Type |-> T_google_compute_instance,
     ProviderName |-> "google",
     Values |-> [id |-> VStr("projects/p/zones/z/instances/n"),
                 labels |-> VMap([Environment |-> VStr("v"), Owner |-> VNum("7")]),
                 tags |-> VList(<<VStr("web")>>)]]
ResGcs ==
    [Address |-> "google_storage_bucket.b", Type |-> T_google_storage_bucket,
     ProviderName |-> "google",
     Values |-> [name |-> VStr("gcs"), tags |-> Tags({"Owner"})]]

Module(resources, children) == [Resources |-> resources, ChildModules |-> children]
\* a PlanOutput: PlannedValues.RootModule, absent or one module
PlanOf(root) == [RootModule |-> root]

PlanSet ==
    { PlanOf(<<>>),
      PlanOf(<<Module(<<>>, <<>>)>>),
      PlanOf(<<Module(<<ResBucket>>, <<>>)>>),
      PlanOf(<<Module(<<ResInstance>>, <<Module(<<ResVpc>>, <<>>)>>)>>),
      PlanOf(<<Module(<<ResAnon, ResBucket>>, <<Module(<<>>, <<Module(<<ResInstance>>, <<>>)>>)>>)>>),
      PlanOf(<<Module(<<ResAnon>>, <<Module(<<ResBucket>>, <<Module(<<ResInstance>>, <<>>)>>),
                                     Module(<<ResVpc>>, <<>>)>>)>>) }

Answer(st, keys) == [st |-> st, tags |-> [key \in keys |-> "v"]]
Unasked == Answer("unasked", {})
ResourceIDs ==
    {"bkt", "i-1", "vpc", "prod-db", "/subscriptions/s/resourceGroups/rg", ID_azure_vm, "sa",
     "vm", "projects/p/zones/z/instances/n", "gcs", "role"}
AnswerSet ==
    { Answer("exists", {"Environment", "Owner"}),
      Answer("exists", {"Environment"}),
      [st |-> "exists", tags |-> [Environment |-> "w", Owner |-> "7"]],
      Answer("absent", {}),
      Answer("apierr", {}) }

RuleTags ==
    [Name |-> "required-tags", Severity |-> "error", Enabled |-> TRUE,
     ResourceTypes |-> << <<"a","w","s","_","*">> >>,
     Conditions |-> [c \in {<<"tags", "required">>} |-> VList(<<VStr("Environment"), VStr("Owner")>>)],
     Message |-> "Required tags missing", Remediation |-> "Add the tags"]
RuleEnc ==
    [Name |-> "encryption", Severity |-> "warning", Enabled |-> TRUE,
     ResourceTypes |-> <<>>,
     Conditions |-> [c \in {<<"encryption", "enabled">>} |-> VBool(TRUE)],
     Message |-> "Encryption must be enabled", Remediation |-> "Enable encryption"]
RuleInfo ==
    [Name |-> "bucket-naming", Severity |-> "info", Enabled |-> TRUE,
     ResourceTypes |-> << <<"a","w","s","_","s","3","*">>, T_aws_s3_bucket,
                          <<"a","w","s",".","v","p","c">>, <<"v","p","c">>, <<"A","W","S","_","*">> >>,
     Conditions |-> [c \in {<<"id">>, <<"encrypted">>} |->
                        IF c = <<"id">> THEN VStr("bucket") ELSE VStr("false")],
     Message |-> "Unexpected id", Remediation |-> ""]
RuleOff ==
    [Name |-> "disabled", Severity |-> "error", Enabled |-> FALSE,
     ResourceTypes |-> <<>>,
     Conditions |-> [c \in {<<"tags", "required">>} |-> VList(<<VStr("CostCenter")>>)],
     Message |-> "Disabled rule", Remediation |-> ""]

RuleSet == {RuleTags, RuleEnc, RuleInfo, RuleOff}

\* the policies of at most n distinct rules of R, in every order
RECURSIVE PoliciesOf(_, _)
PoliciesOf(R, n) ==
    IF n = 0 THEN {<<>>}
    ELSE PoliciesOf(R, n - 1) \cup
         {Append(p, rule) : p \in {q \in PoliciesOf(R, n - 1) : Len(q) = n - 1}, rule \in R} 

Distinct(p) == \A i, j \in 1..Len(p) : i # j => p[i] # p[j]

PolicySet == {p \in PoliciesOf({RuleTags, RuleEnc}, MaxRules) : Distinct(p)}

\* the keys of the Conditions maps of a policy, and of the planned tags or
\* labels of a resource
ConditionKeys(rules) == UNION {DOMAIN rules[i].Conditions : i \in 1..Len(rules)}
TagKeys(resource) ==
    UNION {IF IsKind(resource.Values, f, "map") THEN DOMAIN resource.Values[f].m ELSE {} :
               f \in {"tags", "labels"}}

\* the orders a range over a Go map with keys in S can take
Orders(S) == {q \in [1..Cardinality(S) -> S] : \A i, j \in 1..Cardinality(S) : i # j => q[i] # q[j]}

TfFile(mentions) == [readable |-> TRUE, mentions |-> mentions]
TfFilesSet ==
    { <<>>,
      <<TfFile({"aws"})>>,
      <<TfFile({"aws", "google"}), [readable |-> FALSE, mentions |-> {"google"}]>>,
      <<TfFile({"aws", "azurerm"}), TfFile({"azurerm"})>> }

ConfigSet ==
    [Mode : {ModeValidateExisting, ModeEphemeralSandbox},
     CloudProvider : {"", "aws", "oracle"},
     NoDestroy : BOOLEAN,
     Verbose : BOOLEAN]

\* ------------------------------------------------------------------- state
VARIABLES
    runs,       \* the Validate executions on this host
    cfg,        \* cfg[r]: the ValidatorConfig of run r
    policy,     \* policy[r]: rulesEngine.policy.Rules
    tfFiles,    \* tfFiles[r]: the *.tf files of the working directory
    planOut,    \* planOut[r]: the plan terraform computes in r's directory
    live,       \* the provider's answer per resource ID, Unasked until
                \* the first call about that ID
    ctxDone,    \* ctxDone[r]: the caller's context is cancelled
    pc,         \* pc[r]: the statement of Validate that r is at
    cloudAdapter, \* cloudAdapter[r]: provider of v.cloudAdapter, "" for nil
    planFile,   \* the file os.TempDir()/terraship-plan.tfplan: 0 when
                \* absent, else the run whose terraform plan wrote it
    plan,       \* plan[r]: what ShowJSON returned, as an optional
    todo,       \* todo[r]: the resources the loop has still to validate
    results,    \* results[r]: v.results
    applyErr,   \* applyErr[r]: applyErr of runEphemeralMode
    destroyErr, \* destroyErr[r]: the error v.tfClient.Destroy returned
    ret,        \* ret[r]: what Validate returned, [summary, err]
    calls,      \* calls[r]: the Client methods invoked, in order
    procs,      \* procs[r]: the terraform subprocesses started, in order
    stderr,     \* stderr[r]: what the run wrote to os.Stderr
    infra,      \* infra[r]: what r's apply and destroy left in the cloud
    touched,    \* the plan-file accesses: [run, op, owner]
    failures,   \* failures[r]: the phases of this call of Validate whose
                \* call returned an error, in order
    prev,       \* prev[r]: what the earlier calls of Validate with r's
                \* configuration returned, and whether the call after each
                \* one was made on a new Validator
    exitCode,   \* exitCode[r]: the exit code of the terraship process that
                \* made run r, -1 while it runs
    output      \* output[r]: the formatted result the process emitted, as
                \* an optional [to, passed]

vars == <<runs, cfg, policy, tfFiles, planOut, live, ctxDone, pc, cloudAdapter,
          planFile, plan, todo, results, applyErr, destroyErr, ret, calls, procs, stderr, infra, touched,
          failures, prev, exitCode, output>>

inputs == <<runs, cfg, policy, tfFiles, planOut>>
cli == <<exitCode, output>>

NoReturn == [summary |-> <<>>, err |-> <<>>]

\* the state of the runs R when each has just entered Validate
Started(R) ==
    /\ runs = R
    /\ ctxDone = [r \in R |-> FALSE]
    /\ pc = [r \in R |-> "init"]
    /\ cloudAdapter = [r \in R |-> ""]
    /\ planFile = 0
    /\ plan = [r \in R |-> <<>>]
    /\ todo = [r \in R |-> <<>>]
    /\ results = [r \in R |-> <<>>]
    /\ applyErr = [r \in R |-> <<>>]
    /\ destroyErr = [r \in R |-> <<>>]
    /\ ret = [r \in R |-> NoReturn]
    /\ calls = [r \in R |-> <<>>]
    /\ procs = [r \in R |-> <<>>]
    /\ stderr = [r \in R |-> <<>>]
    /\ infra = [r \in R |-> "none"]
    /\ touched = {}
    /\ failures = [r \in R |-> <<>>]
    /\ prev = [r \in R |-> <<>>]
    /\ exitCode = [r \in R |-> -1]
    /\ output = [r \in R |-> <<>>]

Init ==
    /\ Started({1})
    /\ cfg \in [{1} -> ConfigSet]
    /\ policy \in [{1} -> PolicySet]
    /\ tfFiles \in [{1} -> TfFilesSet]
    /\ planOut \in [{1} -> PlanSet]
    /\ live = [id \in ResourceIDs |-> Unasked]
    /\ cfg[1].CloudProvider # "" => tfFiles[1] = <<>>

\* runCommand: exec.CommandContext starts no process once the context is
\* done and kills a running one when it becomes done, so a done context
\* makes the command fail; otherwise the process runs and may fail.
RunCommand(r, method, command, ok) ==
    /\ ctxDone[r] => ~ok
    /\ calls' = [calls EXCEPT ![r] = Append(@, method)]
    /\ procs' = [procs EXCEPT ![r] = IF ctxDone[r] THEN @ ELSE Append(@, command)]

\* PlanFileDeferred with the removal as the last statement of Validate
\* instead of a defer
PlanFileRemovedAtEnd(label) == label = "summary"

\* defer os.Remove(planFile) stands before Step 5: it runs on every return
\* from the statement at label if that statement is Step 5 or a later one
PlanFileDeferred(label) ==
    label \in {"plan", "show", "collect", "resource", "apply", "destroy", "summary"}

\* "return summary, err" of Validate, with the deferred os.Remove(planFile)
Return(r, summary, err) ==
    /\ ret' = [ret EXCEPT ![r] = [summary |-> summary, err |-> err]]
    /\ pc' = [pc EXCEPT ![r] = "done"]
    /\ planFile' = IF PlanFileDeferred(pc[r]) THEN 0 ELSE planFile
    /\ touched' = IF PlanFileDeferred(pc[r]) /\ planFile # 0
                  THEN touched \cup {[run |-> r, op |-> "remove", owner |-> planFile]}
                  ELSE touched

\* the call of phase returned failed (TRUE) or nil
Outcome(r, phase, failed) ==
    failures' = [failures EXCEPT ![r] = IF failed THEN Append(@, phase) ELSE @]

Goto(r, label) ==
    /\ pc' = [pc EXCEPT ![r] = label]
    /\ UNCHANGED <<ret, planFile, touched>>

\* the caller cancels the context of a run that has not returned
Cancel(r) ==
    /\ pc[r] # "done"
    /\ ~ctxDone[r]
    /\ ctxDone' = [ctxDone EXCEPT ![r] = TRUE]
    /\ UNCHANGED <<inputs, cli, prev, failures, live, pc, cloudAdapter, planFile, plan, todo, results, applyErr, destroyErr,
                   ret, calls, procs, stderr, infra, touched>>

\* Step 1: v.tfClient.Init(ctx, false)
TfInit(r) ==
    /\ pc[r] = "init"
    /\ \E ok \in BOOLEAN :
          /\ RunCommand(r, "Init", "init", ok)
          /\ Outcome(r, "init", ~ok)
          /\ IF ok THEN Goto(r, "validate")
             ELSE Return(r, <<>>, <<"terraform init failed", "terraform init failed", "command failed">>)
    /\ UNCHANGED <<inputs, cli, prev, live, ctxDone, cloudAdapter, plan, todo, results, applyErr, destroyErr,
                   stderr, infra>>

\* Step 2: v.tfClient.Validate(ctx); the command's output may fail to
\* parse as JSON or report valid = false
TfValidate(r) ==
    /\ pc[r] = "validate"
    /\ \E out \in {"ok", "command failed", "failed to parse validate output", "validation failed"} :
          /\ RunCommand(r, "Validate", "validate", out # "command failed")
          /\ Outcome(r, "validate", out # "ok")
          /\ IF out = "ok" THEN Goto(r, "provider")
             ELSE Return(r, <<>>, <<"terraform validate failed">> \o
                        (IF out = "command failed" THEN <<"terraform validate failed", out>>
                         ELSE <<out>>))
    /\ UNCHANGED <<inputs, cli, prev, live, ctxDone, cloudAdapter, plan, todo, results, applyErr, destroyErr,
                   stderr, infra>>

\* Steps 3 and 4: take or detect the provider, initializeCloudAdapter
InitializeCloudAdapter(r) ==
    /\ pc[r] = "provider"
    /\ \E provider \in (IF cfg[r].CloudProvider = "" THEN GetProvider(tfFiles[r])
                        ELSE {cfg[r].CloudProvider}),
          out \in {"ok", "failed to initialize adapter", "cloud credentials validation failed"} :
          IF provider = ""
          THEN /\ Return(r, <<>>, <<"failed to detect cloud provider",
                                    "no cloud provider detected in Terraform configuration">>)
               /\ Outcome(r, "provider", TRUE)
               /\ UNCHANGED cloudAdapter
          ELSE IF provider \notin {"aws", "azure", "gcp"}
          THEN /\ Return(r, <<>>, <<"failed to initialize cloud adapter",
                                    "unsupported cloud provider">>)
               /\ Outcome(r, "adapter", TRUE)
               /\ UNCHANGED cloudAdapter
          ELSE IF out # "ok"
          THEN /\ Return(r, <<>>, <<"failed to initialize cloud adapter", out>>)
               /\ Outcome(r, "adapter", TRUE)
               /\ UNCHANGED cloudAdapter
          ELSE /\ cloudAdapter' = [cloudAdapter EXCEPT ![r] = provider]
               /\ Outcome(r, "adapter", FALSE)
               /\ Goto(r, "plan")
    /\ UNCHANGED <<inputs, cli, prev, live, ctxDone, plan, todo, results, applyErr, destroyErr,
                   calls, procs, stderr, infra>>

\* TfPlan going on to Step 6 when terraform plan has failed
TfPlanBestEffort(r) ==
    /\ pc[r] = "plan"
    /\ \E ok \in BOOLEAN :
          /\ RunCommand(r, "Plan", "plan", ok)
          /\ Outcome(r, "plan", ~ok)
          /\ planFile' = IF ok THEN r ELSE planFile
    /\ pc' = [pc EXCEPT ![r] = "show"]
    /\ UNCHANGED <<inputs, cli, prev, live, ctxDone, cloudAdapter, plan, todo, results, applyErr, destroyErr,
                   stderr, infra, ret, touched>>

\* Step 5: defer os.Remove(planFile); v.tfClient.Plan(ctx, planFile).
\* A successful terraform plan writes the file, replacing what is there.
TfPlan(r) ==
    /\ pc[r] = "plan"
    /\ \E ok \in BOOLEAN :
          /\ RunCommand(r, "Plan", "plan", ok)
          /\ Outcome(r, "plan", ~ok)
          /\ IF ok
             THEN /\ planFile' = r
                  /\ pc' = [pc EXCEPT ![r] = "show"]
                  /\ UNCHANGED <<ret, touched>>
             ELSE Return(r, <<>>, <<"terraform plan failed", "terraform plan failed",
                                    "command failed">>)
    /\ UNCHANGED <<inputs, cli, prev, live, ctxDone, cloudAdapter, plan, todo, results, applyErr, destroyErr,
                   stderr, infra>>

\* Step 6: v.tfClient.ShowJSON(ctx, planFile): terraform show fails on a
\* missing file, and its output may fail to parse
TfShow(r) ==
    /\ pc[r] = "show"
    /\ \E out \in {"ok", "command failed", "failed to parse plan output"} :
          /\ RunCommand(r, "ShowJSON", "show", out # "command failed")
          /\ planFile = 0 => out = "command failed"
          /\ Outcome(r, "show", out # "ok")
          /\ IF out = "ok"
             THEN /\ plan' = [plan EXCEPT ![r] = <<planOut[planFile]>>]
                  /\ pc' = [pc EXCEPT ![r] = "collect"]
                  /\ touched' = touched \cup {[run |-> r, op |-> "show", owner |-> planFile]}
                  /\ UNCHANGED <<ret, planFile>>
             ELSE /\ Return(r, <<>>, <<"failed to parse plan">> \o
                            (IF out = "command failed" THEN <<"terraform show failed", out>>
                             ELSE <<out>>))
                  /\ UNCHANGED plan
    /\ UNCHANGED <<inputs, cli, prev, live, ctxDone, cloudAdapter, todo, results, applyErr, destroyErr,
                   stderr, infra>>

\* AfterResources with the mode test of Step 8 lost
AfterResourcesAlwaysApply(r) == "apply"

\* where Validate goes after Step 7
AfterResources(r) == IF cfg[r].Mode = ModeEphemeralSandbox THEN "apply" ELSE "summary"

\* Step 7, validateResources up to its loop: the nil checks and
\* collectResources
CollectResources(r) ==
    /\ pc[r] = "collect"
    /\ IF plan[r][1].RootModule = <<>>
       THEN /\ Return(r, <<>>, <<"resource validation failed", "no resources found in plan">>)
            /\ Outcome(r, "resources", TRUE)
            /\ UNCHANGED todo
       ELSE LET resources == collectResources(plan[r][1].RootModule[1])
            IN  /\ todo' = [todo EXCEPT ![r] = resources]
                /\ Outcome(r, "resources", FALSE)
                /\ Goto(r, IF resources = <<>> THEN AfterResources(r) ELSE "resource")
    /\ UNCHANGED <<inputs, cli, prev, live, ctxDone, cloudAdapter, plan, results, applyErr, destroyErr,
                   calls, procs, stderr, infra>>

\* whether validateResource calls DetectDrift for the resource
CallsDetectDrift(r, resource) ==
    /\ cfg[r].Mode = ModeValidateExisting
    /\ cloudAdapter[r] # ""
    /\ extractResourceID(resource) # ""

\* Step 7, one iteration of the loop of validateResources; the provider
\* answers the call about an ID as it did before, if it was asked before
ValidateResource(r) ==
    /\ pc[r] = "resource"
    /\ LET resource == Head(todo[r])
           resourceID == extractResourceID(resource)
       IN  \E ord \in Orders(ConditionKeys(policy[r])),
              fieldOrd \in Orders(publicFields \cap DOMAIN resource.Values),
              tagOrd \in Orders(TagKeys(resource)),
              answer \in (IF ~CallsDetectDrift(r, resource) THEN {Unasked}
                          ELSE IF live[resourceID] # Unasked THEN {live[resourceID]}
                          ELSE AnswerSet) :
              /\ live' = IF CallsDetectDrift(r, resource)
                         THEN [live EXCEPT ![resourceID] = answer] ELSE live
              /\ results' = [results EXCEPT ![r] =
                                Append(@, validateResource(cfg[r].Mode, cloudAdapter[r], policy[r],
                                                           resource, answer, ord, fieldOrd, tagOrd))]
    /\ todo' = [todo EXCEPT ![r] = Tail(@)]
    /\ Goto(r, IF Tail(todo[r]) = <<>> THEN AfterResources(r) ELSE "resource")
    /\ UNCHANGED <<inputs, cli, prev, failures, ctxDone, cloudAdapter, plan, applyErr, destroyErr, calls, procs, stderr, infra>>

\* Step 8, runEphemeralMode: v.tfClient.Apply(ctx, planFile).  terraform
\* apply fails on a missing plan file; a process that ran and failed may
\* have created part of the resources.
TfApply(r) ==
    /\ pc[r] = "apply"
    /\ \E ok \in BOOLEAN :
          /\ RunCommand(r, "Apply", "apply", ok)
          /\ planFile = 0 => ~ok
          /\ Outcome(r, "apply", ~ok)
          /\ applyErr' = [applyErr EXCEPT ![r] =
                             IF ok THEN <<>> ELSE <<"terraform apply failed", "command failed">>]
          /\ infra' = [infra EXCEPT ![r] =
                          IF ok THEN "applied"
                          ELSE IF ctxDone[r] \/ planFile = 0 THEN @ ELSE "partial"]
    /\ touched' = IF ~ctxDone[r] /\ planFile # 0
                  THEN touched \cup {[run |-> r, op |-> "apply", owner |-> planFile]}
                  ELSE touched
    /\ pc' = [pc EXCEPT ![r] = "destroy"]
    /\ UNCHANGED <<inputs, cli, prev, live, ctxDone, cloudAdapter, plan, todo, results, destroyErr, ret, planFile,
                   stderr>>

\* DestroyAttempted as it was before the cleanup fix: no destroy after a
\* failed apply
DestroyAttemptedOnSuccess(r) == ~cfg[r].NoDestroy /\ applyErr[r] = <<>>

\* "if !v.config.NoDestroy": whether runEphemeralMode calls Destroy
DestroyAttempted(r) == ~cfg[r].NoDestroy

\* ReturnFromEphemeral returning the error of the last call that failed
ReturnFromEphemeralLastError(r, err) ==
    IF err # <<>>
    THEN Return(r, <<>>, <<"ephemeral mode failed">> \o err)
    ELSE IF applyErr[r] # <<>>
    THEN Return(r, <<>>, <<"ephemeral mode failed", "terraform apply failed">> \o applyErr[r])
    ELSE Goto(r, "summary")

\* what runEphemeralMode returns, and Validate with it; err is Destroy's
\* error, nil when Destroy was not called
ReturnFromEphemeral(r, err) ==
    IF applyErr[r] # <<>>
    THEN Return(r, <<>>, <<"ephemeral mode failed", "terraform apply failed">> \o applyErr[r])
    ELSE Goto(r, "summary")

\* Step 8, runEphemeralMode: v.tfClient.Destroy(ctx, true) unless
\* NoDestroy; its error is only printed, and only when Verbose
TfDestroy(r) ==
    /\ pc[r] = "destroy"
    /\ DestroyAttempted(r)
    /\ \E ok \in BOOLEAN :
          LET err == IF ok THEN <<>> ELSE <<"terraform destroy failed", "command failed">>
          IN  /\ RunCommand(r, "Destroy", "destroy", ok)
              /\ Outcome(r, "destroy", ~ok)
              /\ destroyErr' = [destroyErr EXCEPT ![r] = err]
              /\ infra' = [infra EXCEPT ![r] = IF ok THEN "none" ELSE @]
              /\ stderr' = [stderr EXCEPT ![r] =
                               IF ~ok /\ cfg[r].Verbose
                               THEN Append(@, "Warning: terraform destroy encountered issues")
                               ELSE @]
              /\ ReturnFromEphemeral(r, err)
    /\ UNCHANGED <<inputs, cli, prev, live, ctxDone, cloudAdapter, plan, todo, results, applyErr>>

SkipDestroy(r) ==
    /\ pc[r] = "destroy"
    /\ ~DestroyAttempted(r)
    /\ ReturnFromEphemeral(r, <<>>)
    /\ UNCHANGED <<inputs, cli, prev, failures, live, ctxDone, cloudAdapter, plan, todo, results, applyErr, destroyErr,
                   calls, procs, stderr, infra>>

\* Step 9: generateSummary and return
GenerateSummary(r) ==
    /\ pc[r] = "summary"
    /\ Return(r, <<generateSummary(results[r])>>, <<>>)
    /\ UNCHANGED <<inputs, cli, prev, failures, live, ctxDone, cloudAdapter, plan, todo, results, applyErr, destroyErr,
                   calls, procs, stderr, infra>>

\* HumanFormatter.Format: the overall status line of the report
ValidationPassed(summary) ==
    summary.FailedResources = 0 /\ summary.ErrorResources = 0

\* ExitCode with a test of the reports' Errors entries added
ExitCodeOnLoggedError(summary) ==
    IF \/ summary.FailedResources > 0
       \/ summary.ErrorResources > 0
       \/ \E i \in 1..Len(summary.Reports) : summary.Reports[i].Errors # <<>>
    THEN 1 ELSE 0

\* the last statements of runValidate: os.Exit(1) if validation failed,
\* else return nil, on which main exits with 0
ExitCode(summary) ==
    IF summary.FailedResources > 0 \/ summary.ErrorResources > 0 THEN 1 ELSE 0

\* runValidate after validator.Validate has returned.  An error of Validate,
\* of the formatter or of os.WriteFile is returned to main, which exits
\* with 1; outputFile is the --output-file flag ("" for stdout, which
\* fmt.Print writes without looking at the error) and ok tells whether
\* formatting and writing succeeded.
RunValidate(r) ==
    /\ pc[r] = "done"
    /\ exitCode[r] = -1
    /\ IF ret[r].err # <<>>
       THEN /\ exitCode' = [exitCode EXCEPT ![r] = 1]
            /\ UNCHANGED output
       ELSE \E outputFile \in {"", "report.txt"}, ok \in BOOLEAN :
               /\ outputFile = "" => ok
               /\ IF ok
                  THEN /\ output' = [output EXCEPT ![r] =
                                        <<[to |-> outputFile,
                                           passed |-> ValidationPassed(ret[r].summary[1])]>>]
                       /\ exitCode' = [exitCode EXCEPT ![r] = ExitCode(ret[r].summary[1])]
                  ELSE /\ exitCode' = [exitCode EXCEPT ![r] = 1]
                       /\ UNCHANGED output
    /\ UNCHANGED <<inputs, prev, failures, live, ctxDone, pc, cloudAdapter, planFile, plan, todo, results,
                   applyErr, destroyErr, ret, calls, procs, stderr, infra, touched>>

Next ==
    \E r \in runs :
        \/ Cancel(r)
        \/ TfInit(r)
        \/ TfValidate(r)
        \/ InitializeCloudAdapter(r)
        \/ TfPlan(r)
        \/ TfShow(r)
        \/ CollectResources(r)
        \/ ValidateResource(r)
        \/ TfApply(r)
        \/ TfDestroy(r)
        \/ SkipDestroy(r)
        \/ GenerateSummary(r)
        \/ RunValidate(r)

Spec == Init /\ [][Next]_vars

\* Two runs that overlap on one host, each in its own working directory
\* with its own plan
PlanBucket == PlanOf(<<Module(<<ResBucket>>, <<>>)>>)
PlanInstance == PlanOf(<<Module(<<ResInstance>>, <<>>)>>)

InitConc ==
    /\ Started({1, 2})
    /\ cfg \in [{1, 2} -> [Mode : {ModeValidateExisting, ModeEphemeralSandbox},
                           CloudProvider : {"aws"}, NoDestroy : BOOLEAN, Verbose : {FALSE}]]
    /\ ~cfg[1].NoDestroy
    /\ policy = [r \in {1, 2} |-> <<RuleTags>>]
    /\ tfFiles = [r \in {1, 2} |-> <<>>]
    /\ planOut = [r \in {1, 2} |-> IF r = 1 THEN PlanBucket ELSE PlanInstance]
    /\ live = [id \in ResourceIDs |-> Unasked]

SpecConc == InitConc /\ [][Next]_vars

\* One call of validateResource: a run that has reached the loop of
\* validateResources with a plan of one resource
ResourceSet == {ResBucket, ResInstance, ResVpc, ResAnon}
PermPolicySet == {p \in PoliciesOf(RuleSet, MaxPermRules) : Distinct(p)}

\* the state of one run that has reached the loop of validateResources with
\* a plan of one resource, for a policy of P and a resource of R
OneResourcePlans(R) == {PlanOf(<<Module(<<resource>>, <<>>)>>) : resource \in R}

\* the same for the adapters A and the plans Plans
AtResourceLoopOf(A, P, Plans) ==
    /\ runs = {1}
    /\ cfg \in [{1} -> [Mode : {ModeValidateExisting, ModeEphemeralSandbox},
                        CloudProvider : A, NoDestroy : {FALSE}, Verbose : {FALSE}]]
    /\ policy \in [{1} -> P]
    /\ tfFiles = [r \in {1} |-> <<>>]
    /\ planOut \in [{1} -> Plans]
    /\ live = [id \in ResourceIDs |-> Unasked]
    /\ ctxDone = [r \in {1} |-> FALSE]
    /\ pc = [r \in {1} |-> "resource"]
    /\ cloudAdapter = [r \in {1} |-> cfg[r].CloudProvider]
    /\ planFile = 1
    /\ plan = [r \in {1} |-> <<planOut[r]>>]
    /\ todo = [r \in {1} |-> collectResources(planOut[r].RootModule[1])]
    /\ results = [r \in {1} |-> <<>>]
    /\ applyErr = [r \in {1} |-> <<>>]
    /\ destroyErr = [r \in {1} |-> <<>>]
    /\ ret = [r \in {1} |-> NoReturn]
    /\ calls = [r \in {1} |-> <<"Init", "Validate", "Plan", "ShowJSON">>]
    /\ procs = [r \in {1} |-> <<"init", "validate", "plan", "show">>]
    /\ stderr = [r \in {1} |-> <<>>]
    /\ infra = [r \in {1} |-> "none"]
    /\ touched = {[run |-> 1, op |-> "show", owner |-> 1]}
    /\ failures = [r \in {1} |-> <<>>]
    /\ prev = [r \in {1} |-> <<>>]
    /\ exitCode = [r \in {1} |-> -1]
    /\ output = [r \in {1} |-> <<>>]

AtResourceLoop(P, R) == AtResourceLoopOf({"aws"}, P, OneResourcePlans(R))

InitReport == AtResourceLoop(PermPolicySet, ResourceSet)

NextReport == \E r \in runs : ValidateResource(r)

SpecReport == InitReport /\ [][NextReport]_vars

\* One call of validateResource for a policy of one rule: every checker of
\* the engine against resources that have, lack or mistype its fields
Rule(name, severity, conditions) ==
    [Name |-> name, Severity |-> severity, Enabled |-> TRUE, ResourceTypes |-> <<>>,
     Conditions |-> conditions, Message |-> name, Remediation |-> ""]
Cond(condition, expected) == [c \in {condition} |-> expected]

CheckerRules ==
    { RuleTags, RuleEnc, RuleInfo,
      Rule("public-access", "error", Cond(<<"public_access", "blocked">>, VBool(TRUE))),
      Rule("versioning", "warning", Cond(<<"versioning", "enabled">>, VBool(TRUE))),
      Rule("logging", "warning", Cond(<<"logging", "enabled">>, VBool(TRUE))),
      Rule("backup", "warning", Cond(<<"backup", "enabled">>, VBool(TRUE))),
      Rule("naming", "info", Cond(<<"naming", "pattern">>, VStr("^prod-"))),
      Rule("least-privilege", "error", Cond(<<"iam", "least_privilege">>, VBool(TRUE))),
      Rule("private-subnet", "error", Cond(<<"network", "private_subnet">>, VBool(TRUE))),
      Rule("storage-size", "info", Cond(<<"storage", "size">>, VStr("7"))),
      Rule("storage-type", "info", Cond(<<"storage", "type", "class">>, VStr("gp3"))),
      Rule("no-conditions", "error", <<>>),
      Rule("database-encryption-in-transit", "error",
           [c \in {<<"enforce_ssl">>, <<"storage_encrypted">>} |-> VBool(TRUE)]),
      Rule("unencrypted-ok", "warning", Cond(<<"encryption", "enabled">>, VBool(FALSE))),
      Rule("tags-and-name", "error",
           [c \in {<<"tags", "required">>, <<"naming", "pattern">>, <<"public_access", "blocked">>} |->
               CASE c = <<"tags", "required">> -> VList(<<VStr("Environment"), VNum("7")>>)
                 [] c = <<"naming", "pattern">> -> VStr("(")
                 [] OTHER -> VBool(TRUE)]) }

EngineResourceSet == ResourceSet \cup {ResDb, ResBare}

InitEngine == AtResourceLoop({<<rule>> : rule \in CheckerRules}, EngineResourceSet)

SpecEngine == InitEngine /\ [][NextReport]_vars

\* One call of validateResource with each provider's adapter, for the
\* resources of every provider
DriftResourceSet ==
    ResourceSet \cup {ResRole, ResGroup, ResVm, ResStorageAccount, ResGce, ResGcs}

InitDrift ==
    AtResourceLoopOf({"aws", "azure", "gcp"}, {<<>>, <<RuleTags>>},
                     OneResourcePlans(DriftResourceSet)
                         \cup {PlanOf(<<Module(<<ResAnon, ResVm>>, <<Module(<<ResVpc>>, <<>>)>>)>>)})

SpecDrift == InitDrift /\ [][NextReport]_vars

\* The caller calls Validate again when a call has returned: on the same
\* Validator, which keeps v.results and v.cloudAdapter, or on one that
\* NewValidator builds from the same configuration.  The cloud is as the
\* first call left it.
ValidateAgain(r, fresh) ==
    /\ pc[r] = "done"
    /\ Len(prev[r]) < MaxCalls - 1
    /\ prev' = [prev EXCEPT ![r] = Append(@, [summary |-> ret[r].summary, err |-> ret[r].err,
                                              fresh |-> fresh])]
    /\ pc' = [pc EXCEPT ![r] = "init"]
    /\ ret' = [ret EXCEPT ![r] = NoReturn]
    /\ ctxDone' = [ctxDone EXCEPT ![r] = FALSE]
    /\ results' = [results EXCEPT ![r] = IF fresh THEN <<>> ELSE @]
    /\ cloudAdapter' = [cloudAdapter EXCEPT ![r] = IF fresh THEN "" ELSE @]
    /\ plan' = [plan EXCEPT ![r] = <<>>]
    /\ todo' = [todo EXCEPT ![r] = <<>>]
    /\ calls' = [calls EXCEPT ![r] = <<>>]
    /\ procs' = [procs EXCEPT ![r] = <<>>]
    /\ failures' = [failures EXCEPT ![r] = <<>>]
    /\ UNCHANGED <<inputs, cli, live, planFile, applyErr, destroyErr, stderr, infra, touched>>

InitAgain ==
    /\ Started({1})
    /\ cfg \in [{1} -> [Mode : {ModeValidateExisting}, CloudProvider : {"", "aws"},
                        NoDestroy : {FALSE}, Verbose : {FALSE}]]
    /\ policy \in [{1} -> PolicySet]
    /\ tfFiles \in [{1} -> TfFilesSet]
    /\ planOut \in [{1} -> PlanSet]
    /\ live = [id \in ResourceIDs |-> Unasked]
    /\ cfg[1].CloudProvider # "" => tfFiles[1] = <<>>

\* the steps of validate-existing runs, which never reach Step 8
NextAgain ==
    \E r \in runs :
        \/ TfInit(r)
        \/ TfValidate(r)
        \/ InitializeCloudAdapter(r)
        \/ TfPlan(r)
        \/ TfShow(r)
        \/ CollectResources(r)
        \/ ValidateResource(r)
        \/ GenerateSummary(r)
        \/ \E fresh \in BOOLEAN : ValidateAgain(r, fresh)

SpecAgain == InitAgain /\ [][NextAgain]_vars

\* ------------------------------------------------------------- properties
Range(q) == {q[i] : i \in 1..Len(q)}
Count(q, x) == Cardinality({i \in 1..Len(q) : q[i] = x})
Ephemeral(r) == cfg[r].Mode = ModeEphemeralSandbox

\* the resources of the plan run r parsed, in the order they are validated
Collected(r) ==
    IF plan[r] = <<>> \/ plan[r][1].RootModule = <<>> THEN <<>>
    ELSE collectResources(plan[r][1].RootModule[1])

\* C1: in ephemeral-sandbox mode, whatever apply returned, destroy is
\* invoked exactly once after apply iff no-destroy is unset, and destroy is
\* never invoked before apply.
C1_DestroyOnceAfterApply ==
    \A r \in runs :
        /\ \A i \in 1..Len(calls[r]) :
               calls[r][i] = "Destroy" => \E j \in 1..(i - 1) : calls[r][j] = "Apply"
        /\ (Ephemeral(r) /\ pc[r] = "done" /\ "Apply" \in Range(calls[r]))
               => (Count(calls[r], "Destroy") = (IF cfg[r].NoDestroy THEN 0 ELSE 1))

C1_Witness ==
    \E r \in runs :
        /\ Ephemeral(r) /\ pc[r] = "done" /\ ~cfg[r].NoDestroy
        /\ applyErr[r] # <<>>
        /\ Len(calls[r]) >= 2
        /\ SubSeq(calls[r], Len(calls[r]) - 1, Len(calls[r])) = <<"Apply", "Destroy">>

\* whether what Validate returned to its caller tells of a failed destroy
DestroyFailureSurfaced(r) ==
    \/ "terraform destroy failed" \in Range(ret[r].err)
    \/ /\ ret[r].summary # <<>>
       /\ \E i \in 1..Len(ret[r].summary[1].Reports) :
              \E j \in 1..Len(ret[r].summary[1].Reports[i].Errors) :
                  "terraform destroy failed" \in Range(ret[r].summary[1].Reports[i].Errors[j])

\* C2: in ephemeral-sandbox mode with no-destroy unset, when apply succeeds
\* and destroy then fails, the destroy failure is surfaced in what Validate
\* returns (its error or its Summary).
C2_DestroyFailureSurfaced ==
    \A r \in runs :
        (/\ pc[r] = "done" /\ Ephemeral(r) /\ ~cfg[r].NoDestroy
         /\ "Apply" \in Range(calls[r]) /\ applyErr[r] = <<>>
         /\ destroyErr[r] # <<>>)
            => DestroyFailureSurfaced(r)

\* C3: in ephemeral-sandbox mode, when apply fails, Validate returns no
\* Summary and an error that wraps the apply failure, whether destroy
\* succeeded, failed or was skipped.
C3_ApplyErrorPropagates ==
    \A r \in runs :
        (pc[r] = "done" /\ applyErr[r] # <<>>)
            => /\ ret[r].summary = <<>>
               /\ ret[r].err = <<"ephemeral mode failed", "terraform apply failed">> \o applyErr[r]

C3_Witness ==
    \E r \in runs :
        /\ pc[r] = "done" /\ applyErr[r] # <<>> /\ destroyErr[r] # <<>>
        /\ "terraform apply failed" \in Range(ret[r].err)

\* C4: in validate-existing mode Validate never invokes apply or destroy:
\* its only tool calls are init, validate, plan and show.
C4_NoMutationInValidateExisting ==
    \A r \in runs :
        cfg[r].Mode = ModeValidateExisting
            => /\ Range(calls[r]) \subseteq {"Init", "Validate", "Plan", "ShowJSON"}
               /\ Range(procs[r]) \subseteq {"init", "validate", "plan", "show"}
               /\ infra[r] = "none"

C4_Witness ==
    \E r \in runs :
        /\ cfg[r].Mode = ModeValidateExisting /\ pc[r] = "done"
        /\ ret[r].summary # <<>> /\ ret[r].summary[1].TotalResources > 0
        /\ calls[r] = <<"Init", "Validate", "Plan", "ShowJSON">>

\* C5: in ephemeral-sandbox mode with no-destroy unset, when the context is
\* cancelled after apply has succeeded, a destroy subprocess is still run.
C5_DestroyRunsAfterCancel ==
    \A r \in runs :
        (/\ pc[r] = "done" /\ Ephemeral(r) /\ ~cfg[r].NoDestroy
         /\ "Apply" \in Range(calls[r]) /\ applyErr[r] = <<>>
         /\ ctxDone[r])
            => "destroy" \in Range(procs[r])

\* C6: once plan generation has been started, every return of Validate
\* leaves no plan file behind.
C6_PlanFileRemovedOnReturn ==
    \A r \in runs :
        (pc[r] = "done" /\ "Plan" \in Range(calls[r])) => planFile = 0

C6_Witness ==
    \E r \in runs :
        /\ pc[r] = "done" /\ "show" \in Range(procs[r])
        /\ applyErr[r] # <<>> /\ ret[r].err # <<>>
        /\ [run |-> r, op |-> "remove", owner |-> r] \in touched

\* C7: of two overlapping runs, neither parses, applies or removes a plan
\* file that the other run wrote.
C7_PlanFileExclusive ==
    \A e \in touched : e.owner = e.run

FailedWith(report, severity) ==
    \E i \in 1..Len(report.RuleResults) :
        ~report.RuleResults[i].Passed /\ report.RuleResults[i].Severity = severity
DriftOf(report) == report.DriftStatus # <<>> /\ report.DriftStatus[1].DriftDetected

\* C8: a report's Status is never pass when a rule result of severity
\* error failed, and never fail when no rule result of severity error
\* failed, with or without drift.
C8_EscalationMonotonic ==
    \A r \in runs : \A i \in 1..Len(results[r]) :
        /\ FailedWith(results[r][i], "error") => results[r][i].Status # "pass"
        /\ ~FailedWith(results[r][i], "error") => results[r][i].Status # "fail"

C8_Witness ==
    \E r \in runs : \E i \in 1..Len(results[r]) :
        /\ FailedWith(results[r][i], "warning") /\ ~FailedWith(results[r][i], "error")
        /\ DriftOf(results[r][i])
        /\ results[r][i].Status = "warning"

\* the Status the escalation rule gives a report
EscalatedStatus(report) ==
    IF FailedWith(report, "error") THEN "fail"
    ELSE IF FailedWith(report, "warning") \/ DriftOf(report) THEN "warning"
    ELSE "pass"

\* the sequences with the elements of q in every order
OrderingsOf(q) ==
    {[i \in 1..Len(q) |-> q[f[i]]] :
        f \in {g \in [1..Len(q) -> 1..Len(q)] : \A i, j \in 1..Len(q) : i # j => g[i] # g[j]}}

\* one of the orders a range over a map with keys S can take
SomeOrder(S) == CHOOSE q \in Orders(S) : TRUE

AnswerFor(resource) ==
    IF extractResourceID(resource) = "" THEN Unasked ELSE live[extractResourceID(resource)]

\* C9: Status is fail if a result of severity error failed, else warning if
\* a result of severity warning failed or drift was detected, else pass;
\* and the rules taken in any other order give the same Status.
C9_StatusIsOrderIndependent ==
    \A r \in runs : \A i \in 1..Len(results[r]) :
        /\ results[r][i].Status = EscalatedStatus(results[r][i])
        /\ i <= Len(Collected(r)) =>
               \A q \in OrderingsOf(policy[r]) :
                   validateResource(cfg[r].Mode, cloudAdapter[r], q, Collected(r)[i],
                                    AnswerFor(Collected(r)[i]),
                                    SomeOrder(ConditionKeys(q)),
                                    SomeOrder(publicFields \cap DOMAIN Collected(r)[i].Values),
                                    SomeOrder(TagKeys(Collected(r)[i]))).Status
                       = results[r][i].Status

C9_Witness ==
    \E r \in runs : \E i \in 1..Len(results[r]) :
        /\ Len(results[r][i].RuleResults) >= 2
        /\ ~results[r][i].RuleResults[1].Passed /\ results[r][i].RuleResults[1].Severity = "error"
        /\ ~results[r][i].RuleResults[2].Passed /\ results[r][i].RuleResults[2].Severity = "warning"
        /\ DriftOf(results[r][i])
        /\ results[r][i].Status = "fail"

\* whether the drift check that validateResource made for resource failed
DriftErrored(r, resource) ==
    /\ CallsDetectDrift(r, resource)
    /\ GetResourceStatus(cloudAdapter[r], resource.Type, SplitLen(extractResourceID(resource)),
                         live[extractResourceID(resource)]).err # <<>>

\* the Status that the rule results alone give
RuleStatus(report) ==
    IF FailedWith(report, "error") THEN "fail"
    ELSE IF FailedWith(report, "warning") THEN "warning"
    ELSE "pass"

\* C10: when drift detection for a resource returns an error, the error is
\* recorded in the resource's Errors, its Status is what rule evaluation
\* produced, no DriftStatus is attached, and the remaining resources are
\* all validated.
C10_DriftErrorIsNotFatal ==
    \A r \in runs :
        /\ \A i \in 1..Len(results[r]) :
               (i <= Len(Collected(r)) /\ DriftErrored(r, Collected(r)[i]))
                   => /\ Len(results[r][i].Errors) = 1
                      /\ results[r][i].Errors[1][1] = "Drift detection failed: "
                      /\ results[r][i].DriftStatus = <<>>
                      /\ results[r][i].Status = RuleStatus(results[r][i])
        /\ pc[r] \in {"resource", "apply", "destroy", "summary"}
               => Len(results[r]) + Len(todo[r]) = Len(Collected(r))
        /\ pc[r] \in {"apply", "destroy", "summary"} => todo[r] = <<>>
        /\ (pc[r] = "done" /\ results[r] # <<>>) => Len(results[r]) = Len(Collected(r))

C10_Witness ==
    \E r \in runs :
        /\ Len(results[r]) >= 2
        /\ DriftErrored(r, Collected(r)[1])
        /\ results[r][1].Errors # <<>>
        /\ ret[r].summary # <<>>

\* the positions of the resources in a module tree: path is the indices of
\* the child modules walked from the root, idx the place in Resources
RECURSIVE Positions(_)
Positions(module) ==
    {[path |-> <<>>, idx |-> i] : i \in 1..Len(module.Resources)} \cup
    UNION {{[path |-> <<c>> \o pos.path, idx |-> pos.idx] : pos \in Positions(module.ChildModules[c])} :
              c \in 1..Len(module.ChildModules)}

RECURSIVE ResourceAt(_, _, _)
ResourceAt(module, path, idx) ==
    IF path = <<>> THEN module.Resources[idx]
    ELSE ResourceAt(module.ChildModules[Head(path)], Tail(path), idx)

\* depth-first pre-order on positions: within a module by index, a module
\* before the modules below it, and an earlier child's subtree before a
\* later child's
PreOrderBefore(a, b) ==
    \/ a.path = b.path /\ a.idx < b.idx
    \/ Len(a.path) < Len(b.path) /\ SubSeq(b.path, 1, Len(a.path)) = a.path
    \/ \E k \in 1..Len(a.path) :
           /\ k <= Len(b.path)
           /\ SubSeq(a.path, 1, k - 1) = SubSeq(b.path, 1, k - 1)
           /\ a.path[k] < b.path[k]

Phases == <<"init", "validate", "provider", "adapter", "plan", "show", "resources", "apply">>
CallsUpTo(phase) ==
    CASE phase = "init" -> <<"Init">>
      [] phase \in {"validate", "provider", "adapter"} -> <<"Init", "Validate">>
      [] phase = "plan" -> <<"Init", "Validate", "Plan">>
      [] phase \in {"show", "resources"} -> <<"Init", "Validate", "Plan", "ShowJSON">>
      [] OTHER -> <<"Init", "Validate", "Plan", "ShowJSON", "Apply">>
\* the failures of the phases of C12: destroy is the cleanup of apply
PhaseFailures(r) == SelectSeq(failures[r], LAMBDA phase : phase # "destroy")
IsPrefixOf(p, q) == Len(p) <= Len(q) /\ SubSeq(q, 1, Len(p)) = p

Counts(summary) ==
    <<summary.TotalResources, summary.PassedResources, summary.FailedResources,
      summary.WarningResources, summary.DriftDetected>>

\* C13: in validate-existing mode, a second call of Validate against the same
\* plan and an unchanged cloud returns a Summary with the same total, passed,
\* failed, warning and drifted counts as the first, on a new Validator and on
\* the same Validator.
C13_ValidateIsIdempotent ==
    \A r \in runs :
        (pc[r] = "done" /\ ret[r].summary # <<>>) =>
            \A i \in 1..Len(prev[r]) :
                prev[r][i].summary # <<>> =>
                    Counts(prev[r][i].summary[1]) = Counts(ret[r].summary[1])

\* the evaluated resources of run r are 1..Evaluated(r) of Collected(r); the
\* rules applied to the i-th are Applied(r, i), one rule result each
Evaluated(r) == IF Len(results[r]) <= Len(Collected(r)) THEN Len(results[r]) ELSE Len(Collected(r))
Applied(r, i) == GetRulesForResource(policy[r], Collected(r)[i].Type)

\* C14: two evaluations of the same rule on the same attributes give the
\* same Passed and the same Details, also when several conditions of the
\* rule fail and when a checker scans several candidate fields.
C14_EvaluateRuleIsDeterministic ==
    \A r \in runs : \A i \in 1..Evaluated(r) : \A j \in 1..Len(Applied(r, i)) :
        \A ord \in Orders(DOMAIN Applied(r, i)[j].Conditions),
           fieldOrd \in Orders(publicFields \cap DOMAIN Collected(r)[i].Values) :
            LET again == EvaluateRule(Applied(r, i)[j], Collected(r)[i].Values, ord, fieldOrd)
            IN  /\ again.Passed = results[r][i].RuleResults[j].Passed
                /\ again.Details = results[r][i].RuleResults[j].Details

\* the order in which the policy document lists the condition keys of the
\* model's rules
ConditionOrder ==
    << <<"tags", "required">>, <<"naming", "pattern">>, <<"public_access", "blocked">>,
       <<"encryption", "enabled">>, <<"versioning", "enabled">>, <<"logging", "enabled">>,
       <<"backup", "enabled">>, <<"iam", "least_privilege">>, <<"network", "private_subnet">>,
       <<"id">>, <<"encrypted">>, <<"enforce_ssl">>, <<"storage_encrypted">>,
       <<"storage", "size">>, <<"storage", "type", "class">> >>
Declared(rule) == Restrict(ConditionOrder, DOMAIN rule.Conditions)

\* C15: a rule result has Passed true iff every condition of the rule passes
\* (a rule without conditions passes), and a failed result carries the detail
\* of the first failing condition in declared order.
C15_ConditionsInDeclaredOrder ==
    \A r \in runs : \A i \in 1..Evaluated(r) : \A j \in 1..Len(Applied(r, i)) :
        LET rule == Applied(r, i)[j]
            values == Collected(r)[i].Values
            fieldOrds == Orders(publicFields \cap DOMAIN values)
            result == results[r][i].RuleResults[j]
        IN  /\ result.Passed =
                   (\A c \in DOMAIN rule.Conditions :
                        evaluateCondition(c, rule.Conditions[c], values, SomeOrder(publicFields)).ok)
            /\ ~result.Passed =>
                   \E fieldOrd \in fieldOrds :
                       result.Details = EvalConditions(Declared(rule), rule.Conditions, values,
                                                       fieldOrd).details

\* the attributes a condition inspects
SubjectFields(condition) ==
    CASE condition = <<"tags", "required">> -> {"tags"}
      [] condition = <<"encryption", "enabled">> -> Range(encryptionFields)
      [] condition = <<"public_access", "blocked">> -> publicFields
      [] condition = <<"versioning", "enabled">> -> Range(versioningFields)
      [] condition = <<"logging", "enabled">> -> Range(loggingFields)
      [] condition = <<"backup", "enabled">> -> Range(backupFields)
      [] condition = <<"naming", "pattern">> -> Range(nameFields)
      [] condition = <<"iam", "least_privilege">> -> Range(policyFields)
      [] condition = <<"network", "private_subnet">> -> {"subnet_id"}
      [] OTHER -> {Head(condition)}

\* the condition asks for something: a boolean checker is asked with true
Demands(condition, expected) ==
    condition \in {<<"encryption", "enabled">>, <<"public_access", "blocked">>,
                   <<"versioning", "enabled">>, <<"logging", "enabled">>, <<"backup", "enabled">>,
                   <<"network", "private_subnet">>}
        => expected = VBool(TRUE)

\* C16: when none of the fields that a condition inspects is among the
\* resource's attributes, the condition fails and a detail is attached, for
\* every condition key.
C16_AbsentFieldFails ==
    \A r \in runs : \A i \in 1..Evaluated(r) : \A j \in 1..Len(Applied(r, i)) :
        \A c \in DOMAIN Applied(r, i)[j].Conditions :
            (/\ Demands(c, Applied(r, i)[j].Conditions[c])
             /\ SubjectFields(c) \cap DOMAIN Collected(r)[i].Values = {})
                => /\ ~results[r][i].RuleResults[j].Passed
                   /\ results[r][i].RuleResults[j].Details # <<>>

\* C17: the rules applied to a resource are exactly the enabled rules of the
\* policy that have no type patterns or a pattern matching the resource's
\* type, each once, in the order of the policy; no disabled rule is applied.
C17_ApplicableRulesInPolicyOrder ==
    \A r \in runs : \A i \in 1..Evaluated(r) :
        LET resourceType == Collected(r)[i].Type
            expected ==
                SelectSeq(policy[r],
                          LAMBDA rule :
                              /\ rule.Enabled
                              /\ \/ rule.ResourceTypes = <<>>
                                 \/ \E pattern \in Range(rule.ResourceTypes) :
                                        matchResourceType(pattern, resourceType))
        IN  [j \in 1..Len(results[r][i].RuleResults) |-> results[r][i].RuleResults[j].RuleName]
                = [j \in 1..Len(expected) |-> expected[j].Name]

C17_Witness ==
    \E r \in runs : \E i \in 1..Evaluated(r) :
        /\ Collected(r)[i].Type = T_aws_s3_bucket
        /\ policy[r] = <<RuleOff, RuleInfo, RuleTags>>
        /\ [j \in 1..Len(results[r][i].RuleResults) |-> results[r][i].RuleResults[j].RuleName]
               = <<"bucket-naming", "required-tags">>

\* what C18 says a pattern matches: without '*' the identical type, with one
\* trailing '*' the types that start with what stands before it; the claim
\* says nothing else about patterns with a '*' elsewhere
AnchoredMatch(pattern, resourceType) ==
    IF "*" \notin Range(pattern) THEN pattern = resourceType
    ELSE IF "*" \notin Range(SubSeq(pattern, 1, Len(pattern) - 1))
         THEN HasPrefix(resourceType, SubSeq(pattern, 1, Len(pattern) - 1))
         ELSE matchResourceType(pattern, resourceType)

\* C18: a rule with type patterns is applied to a resource iff one of its
\* patterns matches the whole type, case-sensitively: a pattern without '*'
\* only the identical type, a pattern with a trailing '*' the types with
\* that prefix.
C18_PatternMatchIsAnchored ==
    \A r \in runs : \A i \in 1..Evaluated(r) : \A k \in 1..Len(policy[r]) :
        (policy[r][k].Enabled /\ policy[r][k].ResourceTypes # <<>>) =>
            ((\E j \in 1..Len(results[r][i].RuleResults) :
                  results[r][i].RuleResults[j].RuleName = policy[r][k].Name)
             <=> (\E pattern \in Range(policy[r][k].ResourceTypes) :
                      AnchoredMatch(pattern, Collected(r)[i].Type)))

\* the tag keys a tags.required list asks for
RequiredKeys(expected) == {Sprint(expected.l[n]) : n \in 1..Len(expected.l)}

\* C19: a rule whose one condition is tags.required with a list of keys
\* passes iff the resource has a tags mapping with every listed key; a
\* resource without a tags mapping fails; when tags is there the detail names
\* exactly the missing keys.
C19_RequiredTags ==
    \A r \in runs : \A i \in 1..Evaluated(r) : \A j \in 1..Len(Applied(r, i)) :
        LET rule == Applied(r, i)[j]
            values == Collected(r)[i].Values
            result == results[r][i].RuleResults[j]
            expected == rule.Conditions[<<"tags", "required">>]
            tagged == "tags" \in DOMAIN values /\ values["tags"].k = "map"
        IN  (DOMAIN rule.Conditions = {<<"tags", "required">>} /\ expected.k = "list") =>
                /\ result.Passed = (tagged /\ RequiredKeys(expected) \subseteq DOMAIN values["tags"].m)
                /\ ~tagged => result.Details = << <<"No tags found on resource">> >>
                /\ (tagged /\ ~result.Passed) =>
                       /\ Len(result.Details) = 1
                       /\ Head(result.Details[1]) = "Missing required tags: "
                       /\ Range(Tail(result.Details[1]))
                              = RequiredKeys(expected) \ DOMAIN values["tags"].m
                       /\ Len(Tail(result.Details[1]))
                              = Cardinality(RequiredKeys(expected) \ DOMAIN values["tags"].m)

C19_Witness ==
    \E r \in runs : \E i \in 1..Evaluated(r) :
        /\ policy[r] = <<RuleTags>>
        /\ Collected(r)[i] = ResBucket
        /\ ~results[r][i].RuleResults[1].Passed
        /\ results[r][i].RuleResults[1].Details = << <<"Missing required tags: ", "Owner">> >>

\* C20: a rule whose one condition is encryption.enabled: true passes iff one
\* of the encryption fields is present and is boolean true or a non-empty
\* mapping.
C20_EncryptionEnabled ==
    \A r \in runs : \A i \in 1..Evaluated(r) : \A j \in 1..Len(Applied(r, i)) :
        LET rule == Applied(r, i)[j]
            values == Collected(r)[i].Values
        IN  (/\ DOMAIN rule.Conditions = {<<"encryption", "enabled">>}
             /\ rule.Conditions[<<"encryption", "enabled">>] = VBool(TRUE)) =>
                (results[r][i].RuleResults[j].Passed
                 <=> \E field \in {"encryption", "encrypted", "encryption_configuration",
                                    "server_side_encryption_configuration", "encryption_at_rest"} :
                         /\ field \in DOMAIN values
                         /\ \/ values[field] = VBool(TRUE)
                            \/ values[field].k = "map" /\ DOMAIN values[field].m # {})

C20_Witness ==
    \E r \in runs : \E i \in 1..Evaluated(r) :
        /\ policy[r] = <<RuleEnc>>
        /\ Collected(r)[i] = ResDb
        /\ ~results[r][i].RuleResults[1].Passed
        /\ results[r][i].RuleResults[1].Details = << <<"Encryption is not enabled">> >>

\* the runs whose process has exited after Validate returned a Summary
Exited(r) == exitCode[r] # -1 /\ ret[r].summary # <<>>
SummaryOf(r) == ret[r].summary[1]
CountsFail(summary) == summary.FailedResources > 0 \/ summary.ErrorResources > 0

AdapterTypes(provider) ==
    CASE provider = "aws" -> {T_aws_instance, T_aws_s3_bucket, T_aws_iam_role}
      [] provider = "azure" -> {T_azurerm_virtual_machine, T_azurerm_storage_account,
                                T_azurerm_resource_group}
      [] OTHER -> {T_google_compute_instance, T_google_storage_bucket}
\* the ID has the number of '/'-separated parts that the provider's IDs of
\* this type have
WellFormedID(provider, resource) ==
    LET parts == SplitLen(extractResourceID(resource))
    IN  CASE provider = "azure" ->
                 IF HasPrefix(resource.Type, T_azurerm_resource_group) THEN parts >= 5
                 ELSE parts >= 9
          [] provider = "gcp" /\ HasPrefix(resource.Type, T_google_compute_instance) -> parts >= 6
          [] OTHER -> TRUE
\* the report of a resource whose drift was asked for, of a type of the
\* run's adapter, when the cloud has no resource of that ID
AbsentLive(r, i) ==
    LET resource == Collected(r)[i]
    IN  /\ CallsDetectDrift(r, resource)
        /\ \E t \in AdapterTypes(cloudAdapter[r]) : HasPrefix(resource.Type, t)
        /\ WellFormedID(cloudAdapter[r], resource)
        /\ live[extractResourceID(resource)].st = "absent"

\* C22: with every adapter, DetectDrift on a resource that has no matching
\* live resource returns a status with Exists = false, DriftDetected = true
\* and exactly one detail, which notes the absence (no tag or label entry).
C22_AbsentResourceIsDrift ==
    \A r \in runs : \A i \in 1..Len(results[r]) :
        AbsentLive(r, i) =>
            /\ results[r][i].DriftStatus # <<>>
            /\ ~results[r][i].DriftStatus[1].Exists
            /\ results[r][i].DriftStatus[1].DriftDetected
            /\ results[r][i].DriftStatus[1].DriftDetails = << <<AbsentDetail(cloudAdapter[r])>> >>

\* C23: in ephemeral-sandbox mode the resources are validated after
\* terraform apply and before terraform destroy: whenever a resource has
\* been validated, Apply has been called, and no resource is validated once
\* Destroy has been called.
C23_ValidateBetweenApplyAndDestroy ==
    \A r \in runs :
        (Ephemeral(r) /\ results[r] # <<>>) =>
            /\ "Apply" \in Range(calls[r])
            /\ "Destroy" \in Range(calls[r]) => todo[r] = <<>>

\* the candidate fields the policy documentation gives each condition
CandidateFields(condition) ==
    CASE condition = <<"versioning", "enabled">> ->
             {"versioning", "versioning_configuration", "version_enabled"}
      [] condition = <<"logging", "enabled">> ->
             {"logging", "logging_configuration", "log_configuration", "enable_logging"}
      [] OTHER -> {"backup", "backup_configuration", "backup_enabled", "backup_retention_period"}

\* C24: a rule whose one condition is versioning.enabled, logging.enabled or
\* backup.enabled with expected value true passes iff one of the
\* condition's candidate fields is present and is boolean true or a
\* non-empty mapping, whatever keys the mapping has.
C24_SamePredicateAsEncryption ==
    \A r \in runs : \A i \in 1..Evaluated(r) : \A j \in 1..Len(Applied(r, i)) :
        \A condition \in {<<"versioning", "enabled">>, <<"logging", "enabled">>,
                          <<"backup", "enabled">>} :
            LET rule == Applied(r, i)[j]
                values == Collected(r)[i].Values
            IN  (/\ DOMAIN rule.Conditions = {condition}
                 /\ rule.Conditions[condition] = VBool(TRUE)) =>
                    (results[r][i].RuleResults[j].Passed
                     <=> \E field \in CandidateFields(condition) :
                             /\ field \in DOMAIN values
                             /\ \/ values[field] = VBool(TRUE)
                                \/ values[field].k = "map" /\ DOMAIN values[field].m # {})

\* the condition keys that have a checker of their own
NamedConditions ==
    { <<"tags", "required">>, <<"encryption", "enabled">>, <<"public_access", "blocked">>,
      <<"versioning", "enabled">>, <<"logging", "enabled">>, <<"backup", "enabled">>,
      <<"naming", "pattern">>, <<"iam", "least_privilege">>, <<"network", "private_subnet">> }

\* the walk along the segments of a key: the leaf value, or how it ends
RECURSIVE Walk(_, _)
Walk(segments, mapping) ==
    IF Head(segments) \notin DOMAIN mapping THEN [end |-> "missing", leaf |-> VStr("")]
    ELSE IF Len(segments) = 1 THEN [end |-> "leaf", leaf |-> mapping[Head(segments)]]
    ELSE IF mapping[Head(segments)].k # "map" THEN [end |-> "not a mapping", leaf |-> VStr("")]
    ELSE Walk(Tail(segments), mapping[Head(segments)].m)

\* the string form of a value: the text of a scalar; a mapping or a list
\* prints its own shape
StringForm(v) == IF v.k \in {"map", "list"} THEN <<v.k, v.m, v.l>> ELSE <<"scalar", v.s, v.s>>

GenericHolds(condition, expected, values) ==
    /\ Walk(condition, values).end = "leaf"
    /\ StringForm(Walk(condition, values).leaf) = StringForm(expected)

\* C25: a rule all of whose condition keys are outside the named set passes
\* iff for each key the walk along its '.'-segments through nested mappings
\* reaches a leaf whose string form equals the expected value's; a failed
\* result carries one detail, which is about a key whose condition does not
\* hold: not found when a segment is missing, cannot navigate when an
\* intermediate value is not a mapping, else unexpected value.
C25_GenericPropertyCheck ==
    \A r \in runs : \A i \in 1..Evaluated(r) : \A j \in 1..Len(Applied(r, i)) :
        LET rule == Applied(r, i)[j]
            values == Collected(r)[i].Values
            result == results[r][i].RuleResults[j]
        IN  DOMAIN rule.Conditions \cap NamedConditions = {} =>
                /\ result.Passed <=> \A c \in DOMAIN rule.Conditions :
                                         GenericHolds(c, rule.Conditions[c], values)
                /\ ~result.Passed =>
                       \E c \in DOMAIN rule.Conditions :
                           /\ ~GenericHolds(c, rule.Conditions[c], values)
                           /\ result.Details =
                                  << << CASE Walk(c, values).end = "missing" -> "Property not found: "
                                          [] Walk(c, values).end = "not a mapping" ->
                                                 "Cannot navigate property path: "
                                          [] OTHER -> "Property has unexpected value: " >> \o c >>

\* number 7 at storage.size passes against the expected string "7", and
\* other rules fail in each of the three ways
C25_Witness ==
    \E r \in runs : \E i \in 1..Evaluated(r) : \E j \in 1..Len(Applied(r, i)) :
        LET rule == Applied(r, i)[j]
            values == Collected(r)[i].Values
        IN  /\ DOMAIN rule.Conditions = {<<"storage", "size">>}
            /\ rule.Conditions[<<"storage", "size">>] = VStr("7")
            /\ "storage" \in DOMAIN values
            /\ values["storage"].m["size"] = VNum("7")
            /\ results[r][i].RuleResults[j].Passed

\* the provider of a planned resource, by its provider name
PlanProvider(resource) ==
    CASE resource.ProviderName = "aws" -> "aws"
      [] resource.ProviderName = "azurerm" -> "azure"
      [] resource.ProviderName = "google" -> "gcp"
      [] OTHER -> ""
PlannedResources(r) ==
    IF planOut[r].RootModule = <<>> THEN <<>> ELSE collectResources(planOut[r].RootModule[1])
PlanCount(r, p) ==
    Cardinality({i \in 1..Len(PlannedResources(r)) : PlanProvider(PlannedResources(r)[i]) = p})
MostFrequentInPlan(r) ==
    {p \in {"aws", "azure", "gcp"} :
        PlanCount(r, p) > 0 /\ \A q \in {"aws", "azure", "gcp"} : PlanCount(r, q) <= PlanCount(r, p)}
\* provider selection (Step 3) has been done
Selected(r) == cloudAdapter[r] # "" \/ "provider" \in Range(failures[r]) \/ "adapter" \in Range(failures[r])

\* C26 as stated: with no provider configured, the adapter is that of a most
\* frequent recognised provider among the resources of the run's plan,
\* and selection fails with the no-provider error iff the plan has no
\* resource of a recognised provider.
C26_MostFrequentInPlan ==
    \A r \in runs :
        (cfg[r].CloudProvider = "" /\ Selected(r)) =>
            /\ cloudAdapter[r] # "" => cloudAdapter[r] \in MostFrequentInPlan(r)
            /\ "provider" \in Range(failures[r]) <=> MostFrequentInPlan(r) = {}

\* the readable *.tf files of the working directory that mention provider p
MentionedIn(r, p) ==
    {i \in 1..Len(tfFiles[r]) :
        /\ tfFiles[r][i].readable
        /\ (CASE p = "aws" -> "aws" [] p = "azure" -> "azurerm" [] OTHER -> "google")
               \in tfFiles[r][i].mentions}
MostMentioned(r) ==
    {p \in {"aws", "azure", "gcp"} :
        /\ MentionedIn(r, p) # {}
        /\ \A q \in {"aws", "azure", "gcp"} :
               Cardinality(MentionedIn(r, q)) <= Cardinality(MentionedIn(r, p))}

\* C26 amended: with no provider configured, the selected provider is one
\* that the largest number of readable *.tf files of the working directory
\* mention, and selection fails with the no-provider error, which aborts
\* the run before any plan is made, iff no readable file mentions a
\* recognised provider; a configured provider is used as it is, without
\* detection.
C26_ProviderSelection ==
    \A r \in runs :
        Selected(r) =>
            IF cfg[r].CloudProvider = ""
            THEN /\ cloudAdapter[r] # "" => cloudAdapter[r] \in MostMentioned(r)
                 /\ "adapter" \in Range(failures[r]) => MostMentioned(r) # {}
                 /\ "provider" \in Range(failures[r]) <=> MostMentioned(r) = {}
                 /\ "provider" \in Range(failures[r]) =>
                        /\ pc[r] = "done"
                        /\ ret[r].summary = <<>>
                        /\ ret[r].err = <<"failed to detect cloud provider",
                                          "no cloud provider detected in Terraform configuration">>
                        /\ "Plan" \notin Range(calls[r])
            ELSE /\ cloudAdapter[r] \in {"", cfg[r].CloudProvider}
                 /\ "provider" \notin Range(failures[r])

\* both files mention azurerm and one of them mentions aws: the run
\* validates the plan's aws resources with the azure adapter
C26_Witness ==
    \E r \in runs :
        /\ cfg[r].CloudProvider = ""
        /\ Cardinality(MentionedIn(r, "aws")) = 1
        /\ cloudAdapter[r] = "azure"
        /\ results[r] # <<>>

\* the first of id, name, arn that is a non-empty string, "" if there is none
IDAttributes == <<"id", "name", "arn">>
UsableAt(values) ==
    {k \in 1..3 : /\ IDAttributes[k] \in DOMAIN values
                  /\ values[IDAttributes[k]].k = "string"
                  /\ values[IDAttributes[k]].s # ""}
FirstUsableID(values) ==
    IF UsableAt(values) = {} THEN ""
    ELSE values[IDAttributes[CHOOSE k \in UsableAt(values) : \A n \in UsableAt(values) : k <= n]].s

\* C27: in validate-existing mode with an adapter, the provider is asked
\* about exactly the IDs that are the first non-empty string among id, name,
\* arn of a validated resource; a resource with none of them gets no
\* DriftStatus and no error and keeps the Status of its rule results, and a
\* resource with one gets a DriftStatus or a drift error.
C27_ResourceIDOrder ==
    \A r \in runs :
        (cfg[r].Mode = ModeValidateExisting /\ cloudAdapter[r] # "") =>
            /\ \A id \in ResourceIDs :
                   live[id] # Unasked
                       <=> \E i \in 1..Evaluated(r) : FirstUsableID(Collected(r)[i].Values) = id
            /\ \A i \in 1..Evaluated(r) :
                   IF FirstUsableID(Collected(r)[i].Values) = ""
                   THEN /\ results[r][i].DriftStatus = <<>>
                        /\ results[r][i].Errors = <<>>
                        /\ results[r][i].Status = RuleStatus(results[r][i])
                   ELSE results[r][i].DriftStatus # <<>> \/ results[r][i].Errors # <<>>

\* one run's reports of a resource without any ID attribute, which keeps
\* the pass of its rule result, of one whose id is asked about although it has a name, and of one
\* whose arn is asked about since its id is empty
C27_Witness ==
    \E r \in runs :
        /\ cfg[r].Mode = ModeValidateExisting /\ cloudAdapter[r] # ""
        /\ Evaluated(r) = 3
        /\ UsableAt(Collected(r)[1].Values) = {}
        /\ results[r][1].RuleResults # <<>> /\ results[r][1].Status = "pass"
        /\ UsableAt(Collected(r)[2].Values) = {1, 2} /\ live[ID_azure_vm] # Unasked
        /\ UsableAt(Collected(r)[3].Values) = {3} /\ live["vpc"] # Unasked

\* the planned tags of a resource as the run's adapter reads them: the
\* mapping at labels for GCP, at tags for the others, none if that
\* attribute is not a mapping
PlannedTags(r, resource) ==
    LET field == IF cloudAdapter[r] = "gcp" THEN "labels" ELSE "tags"
    IN  IF field \in DOMAIN resource.Values /\ resource.Values[field].k = "map"
        THEN resource.Values[field].m ELSE <<>>
\* the planned keys that the live tags lack or give another value than the
\* string form of the planned value
DriftedKeys(planned, liveTags) ==
    {key \in DOMAIN planned : key \notin DOMAIN liveTags \/ liveTags[key] # planned[key].s}

RECURSIVE Drifted(_)
Drifted(reports) ==
    IF reports = <<>> THEN 0
    ELSE (IF DriftOf(Head(reports)) THEN 1 ELSE 0) + Drifted(Tail(reports))

\* C29: in every Summary that Validate returns, TotalResources is the
\* number of Reports and the sum of PassedResources, FailedResources,
\* WarningResources and ErrorResources, and DriftDetected is the number of
\* reports whose DriftStatus has drift detected, whatever their Status.
C29_SummaryCounts ==
    \A r \in runs :
        ret[r].summary # <<>> =>
            LET summary == ret[r].summary[1]
            IN  /\ summary.TotalResources = Len(summary.Reports)
                /\ summary.TotalResources =
                       summary.PassedResources + summary.FailedResources
                           + summary.WarningResources + summary.ErrorResources
                /\ summary.DriftDetected = Drifted(summary.Reports)

\* a Summary of three reports, one of each of pass, fail and warning, whose
\* failed report has drift
C29_Witness ==
    \E r \in runs :
        /\ ret[r].summary # <<>>
        /\ ret[r].summary[1].PassedResources = 1
        /\ ret[r].summary[1].FailedResources = 1
        /\ ret[r].summary[1].WarningResources = 1
        /\ \E i \in 1..Len(ret[r].summary[1].Reports) :
               /\ ret[r].summary[1].Reports[i].Status = "fail"
               /\ DriftOf(ret[r].summary[1].Reports[i])

\* C30: every result of EvaluateRule has Passed = false exactly when its
\* Details are not empty, and then they are one detail; a passing result
\* has none.
C30_OneDetailIffFailed ==
    \A r \in runs : \A i \in 1..Len(results[r]) :
        \A j \in 1..Len(results[r][i].RuleResults) :
            LET result == results[r][i].RuleResults[j]
            IN  /\ ~result.Passed <=> result.Details # <<>>
                /\ Len(result.Details) = (IF result.Passed THEN 0 ELSE 1)

\* a failed result with one detail for a rule of three conditions of which
\* at least two fail on the resource
C30_Witness ==
    \E r \in runs : \E i \in 1..Evaluated(r) : \E j \in 1..Len(Applied(r, i)) :
        LET rule == Applied(r, i)[j]
            values == Collected(r)[i].Values
        IN  /\ Cardinality(DOMAIN rule.Conditions) = 3
            /\ Cardinality({c \in DOMAIN rule.Conditions :
                               ~evaluateCondition(c, rule.Conditions[c], values,
                                                  SomeOrder(publicFields \cap DOMAIN values)).ok}) >= 2
            /\ ~results[r][i].RuleResults[j].Passed
            /\ Len(results[r][i].RuleResults[j].Details) = 1

====
